---- MODULE Spec2Model ----
(***************************************************************************)
(* The statement execution engine of pymake (pymake/parserdata.py): the    *)
(* statements of a parsed makefile executed against a build model.         *)
(*                                                                         *)
(* A Python str is a sequence of one-character strings, so that word       *)
(* splitting, pattern classification, stem extraction and parsing of       *)
(* "$(X)" are computed and not assumed.  A Python None is the empty        *)
(* sequence None and a present value v is the one-element sequence         *)
(* Some(v).  An exception in flight is the field "raised" of the execution *)
(* record; every execute operator passes a record with an exception in     *)
(* flight through unchanged, which is how the exception leaves the loops   *)
(* of the source.                                                          *)
(***************************************************************************)
EXTENDS Integers, Sequences, FiniteSets, TLC

VARIABLES
    makefile,   \* the build model the statements mutate
    heap,       \* the rule objects created so far (a reference is an index)
    context,    \* the execution context: [currule]
    raised,     \* the exception that ended the pass, or NoError
    trace,      \* what the last executed statement did, in call order
    done,       \* the statements of the pass executed so far, in order
    groups,     \* ConditionBlock._groups of the block under construction
    argv,       \* the arguments of the command line
    parsed,     \* what parsecommandlineargs returned for them, None before
    loc,        \* a Location within a makefile
    data        \* the text of the line that lies before loc

vars == <<makefile, heap, context, raised, trace, done, groups, argv, parsed, loc, data>>

----------------------------------------------------------------------------
(* Bounds of the model *)

\* statements executed in one pass of the top-level StatementList
MaxSteps == 3

\* addcondition / append calls made on one ConditionBlock
MaxBuild == 4

----------------------------------------------------------------------------
(* Python values *)

None == <<>>
Some(v) == <<v>>

\* a str literal as its sequence of characters
Str(s) == [i \in 1..Len(s) |-> SubSeq(s, i, i)]

NoError == "none"

RECURSIVE Concat(_)
\* ''.join(seq of str)
Concat(ss) ==
    IF ss = <<>> THEN <<>> ELSE Head(ss) \o Concat(Tail(ss))

\* c in s
Contains(s, c) == \E i \in 1..Len(s) : s[i] = c

\* s.find(c) + 1: the first position of c in s, 0 when there is none
Find(s, c) ==
    IF Contains(s, c) THEN CHOOSE i \in 1..Len(s) : s[i] = c /\ \A j \in 1..(i-1) : s[j] # c
    ELSE 0

IsSpace(c) == c \in {" ", "\t"}

RECURSIVE splitacc(_, _, _)
splitacc(s, cur, acc) ==
    IF s = <<>> THEN (IF cur = <<>> THEN acc ELSE Append(acc, cur))
    ELSE IF IsSpace(Head(s))
         THEN splitacc(Tail(s), <<>>, IF cur = <<>> THEN acc ELSE Append(acc, cur))
         ELSE splitacc(Tail(s), Append(cur, Head(s)), acc)

\* data.splitwords: str.split() on whitespace, no empty words
splitwords(s) == splitacc(s, <<>>, <<>>)

\* s.strip(): s without its leading and trailing whitespace
RECURSIVE lstrip(_)
lstrip(s) ==
    IF s # <<>> /\ IsSpace(Head(s)) THEN lstrip(Tail(s)) ELSE s

RECURSIVE rstrip(_)
rstrip(s) ==
    IF s # <<>> /\ IsSpace(s[Len(s)]) THEN rstrip(SubSeq(s, 1, Len(s) - 1)) ELSE s

strip(s) == rstrip(lstrip(s))

\* s[i:].startswith(sep), i counted from 1
StartsAt(s, i, sep) ==
    i + Len(sep) - 1 <= Len(s) /\ SubSeq(s, i, i + Len(sep) - 1) = sep

\* s.find(sep) + 1 for a separator of one or more characters
FindStr(s, sep) ==
    IF \E i \in 1..Len(s) : StartsAt(s, i, sep)
    THEN CHOOSE i \in 1..Len(s) :
             StartsAt(s, i, sep) /\ \A j \in 1..(i-1) : ~StartsAt(s, j, sep)
    ELSE 0

\* s.partition(sep): (head, sep, tail) at the first occurrence of sep,
\* (s, '', '') when there is none
partition(s, sep) ==
    LET p == FindStr(s, sep) IN
    IF p = 0 THEN <<s, <<>>, <<>>>>
    ELSE <<SubSeq(s, 1, p - 1), sep, SubSeq(s, p + Len(sep), Len(s))>>

RECURSIVE splitsep(_, _, _, _)
splitsep(s, sep, cur, acc) ==
    IF s = <<>> THEN Append(acc, cur)
    ELSE IF Head(s) = sep THEN splitsep(Tail(s), sep, <<>>, Append(acc, cur))
    ELSE splitsep(Tail(s), sep, Append(cur, Head(s)), acc)

\* s.split(sep) for a one-character separator: empty segments are kept
split(s, sep) == splitsep(s, sep, <<>>, <<>>)

----------------------------------------------------------------------------
(* Location: a position within a makefile                                  *)

tabwidth == 4

\* Location(path, line, column)
Location(path, line, column) ==
    [path |-> path, line |-> line, column |-> column]

\* mutant: a tab at a tab stop stays at it
charlocation_TabStays(start, char) ==
    IF char # "\t" THEN start + 1
    ELSE start + ((tabwidth - (start % tabwidth)) % tabwidth)

\* _charlocation(start, char): the column after one character
charlocation(start, char) ==
    IF char # "\t" THEN start + 1
    ELSE (start + tabwidth) - (start % tabwidth)

RECURSIVE reduce_charlocation(_, _)
\* reduce(_charlocation, text, start)
reduce_charlocation(text, start) ==
    IF text = <<>> THEN start
    ELSE reduce_charlocation(Tail(text), charlocation(start, Head(text)))

\* Location.__add__(self, text)
Location_add(self, text) ==
    LET newcol == reduce_charlocation(text, self.column) IN
    IF newcol = self.column THEN self
    ELSE Location(self.path, self.line, newcol)

----------------------------------------------------------------------------
(* Expansions: a parsed value template is a sequence of literal runs and   *)
(* variable references.                                                    *)

Lit(s) == [t |-> "lit", s |-> s]
Ref(n) == [t |-> "ref", s |-> n]

RECURSIVE parseacc(_, _, _)
parseacc(d, cur, acc) ==
    LET flush == IF cur = <<>> THEN acc ELSE Append(acc, Lit(cur)) IN
    IF d = <<>> THEN flush
    ELSE IF Head(d) = "$" /\ Len(d) >= 2 /\ d[2] = "(" /\ Contains(d, ")")
         THEN LET close == Find(d, ")") IN
              parseacc(SubSeq(d, close + 1, Len(d)), <<>>,
                       Append(flush, Ref(SubSeq(d, 3, close - 1))))
         ELSE IF Head(d) = "$" /\ Len(d) >= 2 /\ d[2] = "$"
              THEN parseacc(SubSeq(d, 3, Len(d)), Append(cur, "$"), acc)
              ELSE parseacc(Tail(d), Append(cur, Head(d)), acc)

\* parser.parsemakesyntax(d, 0, (), parser.iterdata): raw text to Expansion
parsemakesyntax(d) == parseacc(d, <<>>, <<>>)

----------------------------------------------------------------------------
(* data.Variables: a scope maps a name to (flavor, source, value)          *)

FLAVOR_RECURSIVE == "recursive"
FLAVOR_SIMPLE == "simple"

SOURCE_OVERRIDE == "override"
SOURCE_COMMANDLINE == "commandline"
SOURCE_MAKEFILE == "makefile"
SOURCE_ENVIRONMENT == "environment"

\* the rank of a source: a lower number is a stronger source
SourceRank(source) ==
    CASE source = SOURCE_OVERRIDE -> 0
      [] source = SOURCE_COMMANDLINE -> 1
      [] source = SOURCE_MAKEFILE -> 2
      [] source = SOURCE_ENVIRONMENT -> 3

EmptyScope == << >>

\* Variables.get(name, expand=False): (None, None, None) for an absent name
Variables_get(v, name) ==
    IF name \in DOMAIN v
    THEN [flavor |-> Some(v[name].flavor), source |-> Some(v[name].source),
          value |-> Some(v[name].value)]
    ELSE [flavor |-> None, source |-> None, value |-> None]

\* Variables.set(name, flavor, source, value): a binding from a stronger
\* source is kept
Variables_set(v, name, flavor, source, value) ==
    IF name \in DOMAIN v /\ SourceRank(source) > SourceRank(v[name].source)
    THEN v
    ELSE [n \in DOMAIN v \cup {name} |->
            IF n = name THEN [flavor |-> flavor, source |-> source, value |-> value]
            ELSE v[n]]

RECURSIVE resolve(_, _)
\* Expansion.resolve(makefile, variables): the text of an expansion; a
\* recursive-flavor value is parsed and resolved at every read, a
\* simple-flavor value is read as stored, an absent name reads as ''
resolve(exp, v) ==
    IF exp = <<>> THEN <<>>
    ELSE LET e == Head(exp) IN
         (IF e.t = "lit" THEN e.s
          ELSE IF e.s \notin DOMAIN v THEN <<>>
          ELSE IF v[e.s].flavor = FLAVOR_SIMPLE THEN v[e.s].value
          ELSE resolve(parsemakesyntax(v[e.s].value), v))
         \o resolve(Tail(exp), v)

----------------------------------------------------------------------------
(* data.Pattern, globrelative and the Makefile aggregate                   *)

\* Pattern.ispattern(): the word holds the wildcard marker
Pattern_ispattern(word) == Contains(word, "%")

\* Pattern.gettarget(): the text before the wildcard marker, the whole word
\* when it holds none (the engine calls it on such words only)
Pattern_gettarget(word) ==
    LET p == Find(word, "%") IN
    IF p = 0 THEN word ELSE SubSeq(word, 1, p - 1)

\* Pattern.match(word): the stem as Some(stem), None when the word does not
\* match prefix%suffix
Pattern_match(pattern, word) ==
    LET p == Find(pattern, "%")
        prefix == SubSeq(pattern, 1, p - 1)
        suffix == SubSeq(pattern, p + 1, Len(pattern))
    IN  IF p = 0
        THEN (IF word = pattern THEN Some(<<>>) ELSE None)
        ELSE IF /\ Len(word) >= Len(prefix) + Len(suffix)
                /\ SubSeq(word, 1, Len(prefix)) = prefix
                /\ SubSeq(word, Len(word) - Len(suffix) + 1, Len(word)) = suffix
             THEN Some(SubSeq(word, Len(prefix) + 1, Len(word) - Len(suffix)))
             ELSE None

\* Pattern.ismatchany(): the pattern is the bare wildcard
Pattern_ismatchany(pattern) == pattern = <<"%">>

\* globrelative.hasglob
hasglob(word) == \E i \in 1..Len(word) : word[i] \in {"*", "?", "["}

RECURSIVE fnmatch(_, _)
fnmatch(name, pat) ==
    IF pat = <<>> THEN name = <<>>
    ELSE IF Head(pat) = "*"
         THEN fnmatch(name, Tail(pat)) \/ (name # <<>> /\ fnmatch(Tail(name), pat))
         ELSE /\ name # <<>>
              /\ (Head(pat) = "?" \/ Head(pat) = Head(name))
              /\ fnmatch(Tail(name), Tail(pat))

\* globrelative.glob(makefile.workdir, word): the entries of the working
\* directory that match, in listing order
glob(workdir, word) == SelectSeq(workdir, LAMBDA f : fnmatch(f, word))

RECURSIVE expandwildcards(_, _)
expandwildcards(mk, tlist) ==
    IF tlist = <<>> THEN <<>>
    ELSE (IF ~hasglob(Head(tlist)) THEN <<Head(tlist)>>
          ELSE glob(mk.workdir, Head(tlist)))
         \o expandwildcards(mk, Tail(tlist))

\* the files of the working directory the makefile is executed in
Workdir == <<Str("a.o")>>

\* a new data.Makefile
NewMakefile ==
    [workdir |-> Workdir,
     variables |-> EmptyScope,
     targets |-> << >>,
     patternvariables |-> <<>>,
     implicitrules |-> <<>>,
     defaulttarget |-> None,
     overrides |-> <<>>,
     vpath |-> <<>>,
     exportedvars |-> {},
     included |-> <<>>]

\* data.Target(name, makefile)
NewTarget == [rules |-> <<>>, variables |-> EmptyScope]

\* Makefile.gettarget(name): the entry of the target table, created on demand
Makefile_gettarget(mk, name) ==
    IF name \in DOMAIN mk.targets THEN mk
    ELSE [mk EXCEPT !.targets =
            [n \in DOMAIN mk.targets \cup {name} |->
                IF n = name THEN NewTarget ELSE mk.targets[n]]]

\* Makefile.gettarget(name).addrule(rule)
Target_addrule(mk, name, rule) ==
    LET m == Makefile_gettarget(mk, name) IN
    [m EXCEPT !.targets[name].rules = Append(@, rule)]

\* Makefile.appendimplicitrule(rule)
Makefile_appendimplicitrule(mk, rule) ==
    [mk EXCEPT !.implicitrules = Append(@, rule)]

\* Makefile.foundtarget(name): the first target found is the default goal
Makefile_foundtarget(mk, name) ==
    IF mk.defaulttarget = None THEN [mk EXCEPT !.defaulttarget = Some(name)]
    ELSE mk

\* Makefile.clearallvpaths()
Makefile_clearallvpaths(mk) == [mk EXCEPT !.vpath = <<>>]

\* Makefile.clearvpath(pattern): the search-path rules of that pattern go
Makefile_clearvpath(mk, pattern) ==
    [mk EXCEPT !.vpath = SelectSeq(@, LAMBDA r : r.pattern # pattern)]

\* Makefile.addvpath(pattern, dirs): one more search-path rule
Makefile_addvpath(mk, pattern, dirs) ==
    [mk EXCEPT !.vpath = Append(@, [pattern |-> pattern, dirs |-> dirs])]

\* Makefile.exportedvars.add(name)
Makefile_export(mk, name) == [mk EXCEPT !.exportedvars = @ \cup {name}]

\* Makefile.include(path, required, loc): the file is read and its
\* statements are executed in a pass of their own; a file there is none of
\* is an error when it is required.  The files of the working directory
\* hold no statements.
Makefile_include(e, path, required) ==
    IF \E i \in 1..Len(e.makefile.workdir) : e.makefile.workdir[i] = path
    THEN [e EXCEPT !.makefile.included = Append(@, path)]
    ELSE IF required THEN [e EXCEPT !.raised = "DataError"]
    ELSE e

----------------------------------------------------------------------------
(* Rule objects and the context's current rule                             *)

\* context.currule: nothing yet, a DummyRule, or a reference into the heap
NoRule == [cls |-> "None", ref |-> 0]
DummyRule == [cls |-> "DummyRule", ref |-> 0]
RuleRef(i) == [cls |-> "Rule", ref |-> i]

\* util.makeobject('currule')
NewContext == [currule |-> NoRule]

\* data.Rule(deps, doublecolon, loc)
data_Rule(deps, doublecolon) ==
    [type |-> "Rule", targetpatterns |-> <<>>, prerequisites |-> deps,
     doublecolon |-> doublecolon, commands |-> <<>>]

\* data.PatternRule(targetpatterns, prerequisites, doublecolon, loc)
data_PatternRule(targetpatterns, prerequisites, doublecolon) ==
    [type |-> "PatternRule", targetpatterns |-> targetpatterns,
     prerequisites |-> prerequisites, doublecolon |-> doublecolon,
     commands |-> <<>>]

\* what a target's rule list holds for a data.Rule: the object itself
RuleEntry(ref) ==
    [type |-> "Rule", rule |-> ref, dir |-> <<>>, stem |-> <<>>,
     ismatchany |-> FALSE]

\* data.PatternRuleInstance(prule, dir, stem, ismatchany)
data_PatternRuleInstance(prule, dir, stem, ismatchany) ==
    [type |-> "PatternRuleInstance", rule |-> prule, dir |-> dir,
     stem |-> stem, ismatchany |-> ismatchany]

\* an exception leaves the statement
Raise(e, exc) == [e EXCEPT !.raised = exc]

\* one more entry of the call trace
Log(e, event) == [e EXCEPT !.trace = Append(@, event)]

----------------------------------------------------------------------------
(* Statements.  An execution record e is [makefile, heap, context, raised, *)
(* trace]; every execute operator maps the record before the call to the   *)
(* record after it.                                                        *)

RECURSIVE Statement_execute(_, _)
RECURSIVE StatementList_execute(_, _)

\* trace entries
Executed(s) == [ev |-> "execute", s |-> s]
Evaluated(i, r) == [ev |-> "evaluate", i |-> i, r |-> r]
Discarded(exp) == [ev |-> "discard", exp |-> exp]

\* Override.execute
Override_execute(s, e) ==
    [e EXCEPT !.makefile.overrides = Append(@, s.s)]

\* DummyRule.addcommand
DummyRule_addcommand(e, r) == Log(e, Discarded(r))

\* data.Rule.addcommand / data.PatternRule.addcommand
Rule_addcommand(e, ref, r) ==
    [e EXCEPT !.heap[ref].commands = Append(@, r)]

RECURSIVE Rule_addrules(_, _, _)
\* for t in targets: makefile.gettarget(t.gettarget()).addrule(rule)
Rule_addrules(mk, targets, rule) ==
    IF targets = <<>> THEN mk
    ELSE Rule_addrules(Target_addrule(mk, Pattern_gettarget(Head(targets)), rule),
                       Tail(targets), rule)

\* mutant: the last target of the list is reported as the goal
Rule_execute_LastGoal(s, e) ==
    LET mk == e.makefile
        targets == expandwildcards(mk, splitwords(resolve(s.targetexp, mk.variables)))
        ispatterns == {Pattern_ispattern(targets[i]) : i \in 1..Len(targets)}
        ispattern == CHOOSE b \in ispatterns : TRUE
        deps == expandwildcards(mk, splitwords(resolve(s.depexp, mk.variables)))
        ref == Len(e.heap) + 1
    IN  IF Len(targets) = 0
        THEN [e EXCEPT !.context.currule = DummyRule]
        ELSE IF Cardinality(ispatterns) = 2
        THEN Raise(e, "DataError")
        ELSE IF ispattern
        THEN [e EXCEPT !.heap = Append(@, data_PatternRule(targets, deps, s.doublecolon)),
                       !.makefile = Makefile_appendimplicitrule(@, ref),
                       !.context.currule = RuleRef(ref)]
        ELSE [e EXCEPT !.heap = Append(@, data_Rule(deps, s.doublecolon)),
                       !.makefile = Makefile_foundtarget(
                                        Rule_addrules(@, targets, RuleEntry(ref)),
                                        Pattern_gettarget(targets[Len(targets)])),
                       !.context.currule = RuleRef(ref)]

\* mutant: the kinds of the targets are not compared; the first target
\* decides
Rule_execute_NoMixCheck(s, e) ==
    LET mk == e.makefile
        targets == expandwildcards(mk, splitwords(resolve(s.targetexp, mk.variables)))
        ispattern == Pattern_ispattern(targets[1])
        deps == expandwildcards(mk, splitwords(resolve(s.depexp, mk.variables)))
        ref == Len(e.heap) + 1
    IN  IF Len(targets) = 0
        THEN [e EXCEPT !.context.currule = DummyRule]
        ELSE IF ispattern
        THEN [e EXCEPT !.heap = Append(@, data_PatternRule(targets, deps, s.doublecolon)),
                       !.makefile = Makefile_appendimplicitrule(@, ref),
                       !.context.currule = RuleRef(ref)]
        ELSE [e EXCEPT !.heap = Append(@, data_Rule(deps, s.doublecolon)),
                       !.makefile = Makefile_foundtarget(
                                        Rule_addrules(@, targets, RuleEntry(ref)),
                                        Pattern_gettarget(targets[1])),
                       !.context.currule = RuleRef(ref)]

\* mutant: an empty target list returns at once and leaves the current
\* rule as it was
Rule_execute_NoSink(s, e) ==
    LET mk == e.makefile
        targets == expandwildcards(mk, splitwords(resolve(s.targetexp, mk.variables)))
        ispatterns == {Pattern_ispattern(targets[i]) : i \in 1..Len(targets)}
        ispattern == CHOOSE b \in ispatterns : TRUE
        deps == expandwildcards(mk, splitwords(resolve(s.depexp, mk.variables)))
        ref == Len(e.heap) + 1
    IN  IF Len(targets) = 0
        THEN e
        ELSE IF Cardinality(ispatterns) = 2
        THEN Raise(e, "DataError")
        ELSE IF ispattern
        THEN [e EXCEPT !.heap = Append(@, data_PatternRule(targets, deps, s.doublecolon)),
                       !.makefile = Makefile_appendimplicitrule(@, ref),
                       !.context.currule = RuleRef(ref)]
        ELSE [e EXCEPT !.heap = Append(@, data_Rule(deps, s.doublecolon)),
                       !.makefile = Makefile_foundtarget(
                                        Rule_addrules(@, targets, RuleEntry(ref)),
                                        Pattern_gettarget(targets[1])),
                       !.context.currule = RuleRef(ref)]

\* Rule.execute
Rule_execute(s, e) ==
    LET mk == e.makefile
        atargets == splitwords(resolve(s.targetexp, mk.variables))
        targets == expandwildcards(mk, atargets)
        ispatterns == {Pattern_ispattern(targets[i]) : i \in 1..Len(targets)}
        ispattern == CHOOSE b \in ispatterns : TRUE
        deps == expandwildcards(mk, splitwords(resolve(s.depexp, mk.variables)))
        ref == Len(e.heap) + 1
    IN  IF Len(targets) = 0
        THEN [e EXCEPT !.context.currule = DummyRule]
        ELSE IF Cardinality(ispatterns) = 2
        THEN Raise(e, "DataError")
        ELSE IF ispattern
        THEN [e EXCEPT !.heap = Append(@, data_PatternRule(targets, deps, s.doublecolon)),
                       !.makefile = Makefile_appendimplicitrule(@, ref),
                       !.context.currule = RuleRef(ref)]
        ELSE [e EXCEPT !.heap = Append(@, data_Rule(deps, s.doublecolon)),
                       !.makefile = Makefile_foundtarget(
                                        Rule_addrules(@, targets, RuleEntry(ref)),
                                        Pattern_gettarget(targets[1])),
                       !.context.currule = RuleRef(ref)]

RECURSIVE StaticPatternRule_attach(_, _, _, _)

\* mutant: a target that does not match is attached with an empty stem
StaticPatternRule_attach_NoMatchCheck(e, targets, pattern, ref) ==
    IF targets = <<>> THEN e
    ELSE LET t == Head(targets)
             stem == Pattern_match(pattern, t)
         IN  IF Pattern_ispattern(t) THEN Raise(e, "DataError")
             ELSE StaticPatternRule_attach(
                      [e EXCEPT !.makefile = Target_addrule(@, t,
                           data_PatternRuleInstance(ref, <<>>,
                                                    IF stem = None THEN <<>> ELSE stem[1],
                                                    Pattern_ismatchany(pattern)))],
                      Tail(targets), pattern, ref)

\* the loop over the targets of StaticPatternRule.execute
StaticPatternRule_attach(e, targets, pattern, ref) ==
    IF targets = <<>> THEN e
    ELSE LET t == Head(targets)
             stem == Pattern_match(pattern, t)
         IN  IF Pattern_ispattern(t) THEN Raise(e, "DataError")
             ELSE IF stem = None THEN Raise(e, "DataError")
             ELSE StaticPatternRule_attach(
                      [e EXCEPT !.makefile = Target_addrule(@, t,
                           data_PatternRuleInstance(ref, <<>>, stem[1],
                                                    Pattern_ismatchany(pattern)))],
                      Tail(targets), pattern, ref)

\* mutant: the goal is reported and the rule made current before the
\* targets are looked at
StaticPatternRule_execute_GoalFirst(s, e) ==
    LET mk == e.makefile
        targets == expandwildcards(mk, splitwords(resolve(s.targetexp, mk.variables)))
        patterns == splitwords(resolve(s.patternexp, mk.variables))
        pattern == patterns[1]
        deps == expandwildcards(mk, splitwords(resolve(s.depexp, mk.variables)))
        ref == Len(e.heap) + 1
    IN  IF Len(targets) = 0
        THEN [e EXCEPT !.context.currule = DummyRule]
        ELSE IF Len(patterns) # 1
        THEN Raise(e, "DataError")
        ELSE StaticPatternRule_attach(
                 [e EXCEPT !.heap = Append(@, data_PatternRule(<<pattern>>, deps,
                                                              s.doublecolon)),
                           !.makefile = Makefile_foundtarget(@, targets[1]),
                           !.context.currule = RuleRef(ref)],
                 targets, pattern, ref)

\* StaticPatternRule.execute
StaticPatternRule_execute(s, e) ==
    LET mk == e.makefile
        targets == expandwildcards(mk, splitwords(resolve(s.targetexp, mk.variables)))
        patterns == splitwords(resolve(s.patternexp, mk.variables))
        pattern == patterns[1]
        deps == expandwildcards(mk, splitwords(resolve(s.depexp, mk.variables)))
        ref == Len(e.heap) + 1
        attached == StaticPatternRule_attach(
                        [e EXCEPT !.heap = Append(@, data_PatternRule(<<pattern>>, deps,
                                                                     s.doublecolon))],
                        targets, pattern, ref)
    IN  IF Len(targets) = 0
        THEN [e EXCEPT !.context.currule = DummyRule]
        ELSE IF Len(patterns) # 1
        THEN Raise(e, "DataError")
        ELSE IF attached.raised # NoError
        THEN attached
        ELSE [attached EXCEPT !.makefile = Makefile_foundtarget(@, targets[1]),
                              !.context.currule = RuleRef(ref)]

\* mutant: without a current rule the command is dropped
Command_execute_NoAssert(s, e) ==
    IF e.context.currule = NoRule
    THEN e
    ELSE IF e.context.currule = DummyRule
    THEN DummyRule_addcommand(e, s.exp)
    ELSE Rule_addcommand(e, e.context.currule.ref, s.exp)

\* Command.execute
Command_execute(s, e) ==
    IF e.context.currule = NoRule
    THEN Raise(e, "AssertionError")
    ELSE IF e.context.currule = DummyRule
    THEN DummyRule_addcommand(e, s.exp)
    ELSE Rule_addcommand(e, e.context.currule.ref, s.exp)

----------------------------------------------------------------------------
(* SetVariable                                                             *)

\* the scopes a SetVariable writes: the global scope, the scope of a
\* pattern, the scope of a target
GlobalScope == [scope |-> "global", key |-> <<>>]
PatternScope(p) == [scope |-> "pattern", key |-> p]
TargetScope(t) == [scope |-> "target", key |-> t]

\* the index of the pattern's scope in makefile._patternvariables, 0 if none
PatternIndex(mk, p) ==
    IF \E i \in 1..Len(mk.patternvariables) : mk.patternvariables[i].pattern = p
    THEN CHOOSE i \in 1..Len(mk.patternvariables) :
             /\ mk.patternvariables[i].pattern = p
             /\ \A j \in 1..(i-1) : mk.patternvariables[j].pattern # p
    ELSE 0

\* Makefile.getpatternvariables(pattern): the scope, created on demand
Makefile_getpatternvariables(mk, p) ==
    IF PatternIndex(mk, p) # 0 THEN mk
    ELSE [mk EXCEPT !.patternvariables =
            Append(@, [pattern |-> p, variables |-> EmptyScope])]

\* the Variables object a scope designator stands for
ScopeOf(mk, d) ==
    CASE d.scope = "global" -> mk.variables
      [] d.scope = "pattern" -> mk.patternvariables[PatternIndex(mk, d.key)].variables
      [] d.scope = "target" -> mk.targets[d.key].variables

\* the makefile with that Variables object replaced
WithScope(mk, d, v) ==
    CASE d.scope = "global" -> [mk EXCEPT !.variables = v]
      [] d.scope = "pattern" ->
            [mk EXCEPT !.patternvariables[PatternIndex(mk, d.key)].variables = v]
      [] d.scope = "target" -> [mk EXCEPT !.targets[d.key].variables = v]

\* Variables.append(name, source, value, variables, makefile): the value is
\* joined to the prior one with a space and inherits its flavor
Variables_append(v, name, source, value, variables) ==
    IF name \notin DOMAIN v
    THEN [n \in DOMAIN v \cup {name} |->
            IF n = name
            THEN [flavor |-> FLAVOR_RECURSIVE, source |-> source, value |-> value]
            ELSE v[n]]
    ELSE IF SourceRank(source) > SourceRank(v[name].source)
    THEN v
    ELSE IF v[name].flavor = FLAVOR_SIMPLE
    THEN [v EXCEPT ![name].value =
            @ \o <<" ">> \o resolve(parsemakesyntax(value), variables)]
    ELSE [v EXCEPT ![name].value = @ \o <<" ">> \o value]

RECURSIVE SetVariable_scopes(_, _)
\* lines 218-228: the scopes named by the target words, created on demand;
\* the result is [mk, scopes]
SetVariable_scopes(mk, words) ==
    IF words = <<>> THEN [mk |-> mk, scopes |-> <<>>]
    ELSE LET t == Head(words)
             here == IF Pattern_ispattern(t)
                     THEN [mk |-> Makefile_getpatternvariables(mk, t),
                           d |-> PatternScope(t)]
                     ELSE [mk |-> Makefile_gettarget(mk, Pattern_gettarget(t)),
                           d |-> TargetScope(Pattern_gettarget(t))]
             rest == SetVariable_scopes(here.mk, Tail(words))
         IN  [mk |-> rest.mk, scopes |-> <<here.d>> \o rest.scopes]

\* mutant: '?=' takes a binding with an empty value for no binding
SetVariable_set_DefaultIfEmpty(s, vname, d, e) ==
    LET mk == e.makefile
        v == ScopeOf(mk, d)
        old == Variables_get(v, vname)
    IN  IF s.token = "+="
        THEN [e EXCEPT !.makefile =
                WithScope(mk, d, Variables_append(v, vname, s.source, s.value,
                                                  mk.variables))]
        ELSE IF s.token = "?="
        THEN (IF old.value # None /\ old.value[1] # <<>> THEN e
              ELSE [e EXCEPT !.makefile =
                      WithScope(mk, d, Variables_set(v, vname, FLAVOR_RECURSIVE,
                                                     s.source, s.value))])
        ELSE IF s.token = "="
        THEN [e EXCEPT !.makefile =
                WithScope(mk, d, Variables_set(v, vname, FLAVOR_RECURSIVE,
                                               s.source, s.value))]
        ELSE IF s.token # ":="
        THEN Raise(e, "AssertionError")
        ELSE [e EXCEPT !.makefile =
                WithScope(mk, d, Variables_set(v, vname, FLAVOR_SIMPLE, s.source,
                              resolve(parsemakesyntax(s.value), mk.variables)))]

\* mutant: ':=' defers like '=': the raw text, under the recursive flavor
SetVariable_set_Deferred(s, vname, d, e) ==
    LET mk == e.makefile
        v == ScopeOf(mk, d)
    IN  [e EXCEPT !.makefile =
            WithScope(mk, d, Variables_set(v, vname, FLAVOR_RECURSIVE,
                                           s.source, s.value))]

\* lines 231-252: the body of the loop, for one scope
SetVariable_set(s, vname, d, e) ==
    LET mk == e.makefile
        v == ScopeOf(mk, d)
        old == Variables_get(v, vname)
    IN  IF s.token = "+="
        THEN [e EXCEPT !.makefile =
                WithScope(mk, d, Variables_append(v, vname, s.source, s.value,
                                                  mk.variables))]
        ELSE IF s.token = "?="
        THEN (IF old.value # None THEN e
              ELSE [e EXCEPT !.makefile =
                      WithScope(mk, d, Variables_set(v, vname, FLAVOR_RECURSIVE,
                                                     s.source, s.value))])
        ELSE IF s.token = "="
        THEN [e EXCEPT !.makefile =
                WithScope(mk, d, Variables_set(v, vname, FLAVOR_RECURSIVE,
                                               s.source, s.value))]
        ELSE IF s.token # ":="
        THEN Raise(e, "AssertionError")
        ELSE [e EXCEPT !.makefile =
                WithScope(mk, d, Variables_set(v, vname, FLAVOR_SIMPLE, s.source,
                              resolve(parsemakesyntax(s.value), mk.variables)))]

RECURSIVE SetVariable_loop(_, _, _, _)

\* mutant: only the first of the scopes is written
SetVariable_loop_FirstOnly(s, vname, scopes, e) ==
    IF scopes = <<>> THEN e
    ELSE SetVariable_set(s, vname, Head(scopes), e)

\* for v in setvariables
SetVariable_loop(s, vname, scopes, e) ==
    IF scopes = <<>> \/ e.raised # NoError THEN e
    ELSE SetVariable_loop(s, vname, Tail(scopes),
                          SetVariable_set(s, vname, Head(scopes), e))

\* mutant: an assignment ends the rule: no rule is current after it
SetVariable_execute_EndsRule(s, e) ==
    LET mk == e.makefile
        vname == resolve(s.vnameexp, mk.variables)
        named == SetVariable_scopes(mk, splitwords(resolve(s.targetexp[1], mk.variables)))
        ended == [e EXCEPT !.context.currule = NoRule]
    IN  IF Len(vname) = 0
        THEN Raise(e, "DataError")
        ELSE IF s.targetexp = None
        THEN SetVariable_loop(s, vname, <<GlobalScope>>, ended)
        ELSE SetVariable_loop(s, vname, named.scopes,
                              [ended EXCEPT !.makefile = named.mk])

\* SetVariable.execute
SetVariable_execute(s, e) ==
    LET mk == e.makefile
        vname == resolve(s.vnameexp, mk.variables)
        named == SetVariable_scopes(mk, splitwords(resolve(s.targetexp[1], mk.variables)))
    IN  IF Len(vname) = 0
        THEN Raise(e, "DataError")
        ELSE IF s.targetexp = None
        THEN SetVariable_loop(s, vname, <<GlobalScope>>, e)
        ELSE SetVariable_loop(s, vname, named.scopes, [e EXCEPT !.makefile = named.mk])

----------------------------------------------------------------------------
(* Conditions and the ConditionBlock                                       *)

\* EqCondition.evaluate
EqCondition_evaluate(c, mk) ==
    LET r1 == resolve(c.exp1, mk.variables)
        r2 == resolve(c.exp2, mk.variables)
    IN  (r1 = r2) = c.expected

\* mutant: an absent variable makes the condition false, whatever is expected
IfdefCondition_evaluate_AbsentFalse(c, mk) ==
    LET vname == resolve(c.exp, mk.variables)
        got == Variables_get(mk.variables, vname)
    IN  IF got.value = None
        THEN FALSE
        ELSE (Len(got.value[1]) > 0) = c.expected

\* IfdefCondition.evaluate
IfdefCondition_evaluate(c, mk) ==
    LET vname == resolve(c.exp, mk.variables)
        got == Variables_get(mk.variables, vname)
    IN  IF got.value = None
        THEN ~c.expected
        ELSE (Len(got.value[1]) > 0) = c.expected

\* ElseCondition.evaluate
ElseCondition_evaluate(c, mk) == TRUE

\* c.evaluate(makefile)
Condition_evaluate(c, mk) ==
    CASE c.cond = "EqCondition" -> EqCondition_evaluate(c, mk)
      [] c.cond = "IfdefCondition" -> IfdefCondition_evaluate(c, mk)
      [] c.cond = "ElseCondition" -> ElseCondition_evaluate(c, mk)

\* mutant: the else-clause is looked for in the first clause
ConditionBlock_addcondition_FirstClause(g, condition) ==
    IF Len(g) # 0 /\ g[1].c.cond = "ElseCondition"
    THEN [groups |-> g, raised |-> "SyntaxError"]
    ELSE [groups |-> Append(g, [c |-> condition, statements |-> <<>>]),
          raised |-> NoError]

\* mutant: the clause is appended before the else-clause is looked for
ConditionBlock_addcondition_AppendFirst(g, condition) ==
    IF Len(g) # 0 /\ g[Len(g)].c.cond = "ElseCondition"
    THEN [groups |-> Append(g, [c |-> condition, statements |-> <<>>]),
          raised |-> "SyntaxError"]
    ELSE [groups |-> Append(g, [c |-> condition, statements |-> <<>>]),
          raised |-> NoError]

\* ConditionBlock.addcondition on the clause list g: [groups, raised]
ConditionBlock_addcondition(g, condition) ==
    IF Len(g) # 0 /\ g[Len(g)].c.cond = "ElseCondition"
    THEN [groups |-> g, raised |-> "SyntaxError"]
    ELSE [groups |-> Append(g, [c |-> condition, statements |-> <<>>]),
          raised |-> NoError]

\* ConditionBlock.append
ConditionBlock_append(g, statement) ==
    [g EXCEPT ![Len(g)].statements = Append(@, statement)]

RECURSIVE ConditionBlock_loop(_, _, _)

\* mutant: no return after the clause that was met
ConditionBlock_loop_NoReturn(g, i, e) ==
    IF i > Len(g) THEN e
    ELSE LET met == Condition_evaluate(g[i].c, e.makefile) IN
         IF met
         THEN ConditionBlock_loop(g, i + 1,
                  StatementList_execute(g[i].statements, Log(e, Evaluated(i - 1, TRUE))))
         ELSE ConditionBlock_loop(g, i + 1, Log(e, Evaluated(i - 1, FALSE)))

\* the loop of ConditionBlock.execute from clause i (the source's i + 1)
ConditionBlock_loop(g, i, e) ==
    IF i > Len(g) THEN e
    ELSE LET met == Condition_evaluate(g[i].c, e.makefile) IN
         IF met
         THEN StatementList_execute(g[i].statements, Log(e, Evaluated(i - 1, TRUE)))
         ELSE ConditionBlock_loop(g, i + 1, Log(e, Evaluated(i - 1, FALSE)))

\* mutant: the clause is executed without the context, that is with a
\* fresh one
ConditionBlock_execute_FreshContext(s, e) ==
    LET r == ConditionBlock_loop(s.groups, 1, [e EXCEPT !.context = NewContext])
    IN  [r EXCEPT !.context = e.context]

\* ConditionBlock.execute
ConditionBlock_execute(s, e) == ConditionBlock_loop(s.groups, 1, e)

----------------------------------------------------------------------------
(* The directives                                                          *)

RECURSIVE Include_loop(_, _, _)
\* for f in files: makefile.include(f, self.required, loc=self.exp.loc)
Include_loop(s, files, e) ==
    IF files = <<>> \/ e.raised # NoError THEN e
    ELSE Include_loop(s, Tail(files), Makefile_include(e, Head(files), s.required))

\* Include.execute
Include_execute(s, e) ==
    Include_loop(s, splitwords(resolve(s.exp, e.makefile.variables)), e)

RECURSIVE VPathDirective_dirs(_)
\* the directories of the words after the pattern: every word split on
\* ':', the empty segments dropped
VPathDirective_dirs(mpaths) ==
    IF mpaths = <<>> THEN <<>>
    ELSE SelectSeq(split(Head(mpaths), ":"), LAMBDA dir : dir # <<>>)
         \o VPathDirective_dirs(Tail(mpaths))

\* mutant: words that leave no directory clear the rules of the pattern
VPathDirective_execute_NoDirsClears(s, e) ==
    LET words == splitwords(resolve(s.exp, e.makefile.variables))
        pattern == words[1]
        mpaths == Tail(words)
        dirs == VPathDirective_dirs(mpaths)
    IN  IF Len(words) = 0
        THEN [e EXCEPT !.makefile = Makefile_clearallvpaths(@)]
        ELSE IF Len(mpaths) = 0 \/ Len(dirs) = 0
        THEN [e EXCEPT !.makefile = Makefile_clearvpath(@, pattern)]
        ELSE [e EXCEPT !.makefile = Makefile_addvpath(@, pattern, dirs)]

\* VPathDirective.execute
VPathDirective_execute(s, e) ==
    LET words == splitwords(resolve(s.exp, e.makefile.variables))
        pattern == words[1]
        mpaths == Tail(words)
        dirs == VPathDirective_dirs(mpaths)
    IN  IF Len(words) = 0
        THEN [e EXCEPT !.makefile = Makefile_clearallvpaths(@)]
        ELSE IF Len(mpaths) = 0
        THEN [e EXCEPT !.makefile = Makefile_clearvpath(@, pattern)]
        ELSE IF Len(dirs) # 0
        THEN [e EXCEPT !.makefile = Makefile_addvpath(@, pattern, dirs)]
        ELSE e

RECURSIVE ExportDirective_add(_, _)
\* for v in vlist: makefile.exportedvars.add(v)
ExportDirective_add(mk, vlist) ==
    IF vlist = <<>> THEN mk
    ELSE ExportDirective_add(Makefile_export(mk, Head(vlist)), Tail(vlist))

\* mutant: the single name is split into words like a list of names
ExportDirective_execute_SingleSplit(s, e) ==
    LET vlist == splitwords(resolve(s.exp, e.makefile.variables))
    IN  IF ~s.single /\ Len(vlist) = 0
        THEN Raise(e, "DataError")
        ELSE [e EXCEPT !.makefile = ExportDirective_add(@, vlist)]

\* ExportDirective.execute
ExportDirective_execute(s, e) ==
    LET r == resolve(s.exp, e.makefile.variables)
        vlist == IF s.single THEN <<r>> ELSE splitwords(r)
    IN  IF ~s.single /\ Len(vlist) = 0
        THEN Raise(e, "DataError")
        ELSE [e EXCEPT !.makefile = ExportDirective_add(@, vlist)]

\* EmptyDirective.execute
EmptyDirective_execute(s, e) ==
    LET v == resolve(s.exp, e.makefile.variables)
    IN  IF strip(v) # <<>> THEN Raise(e, "DataError") ELSE e

----------------------------------------------------------------------------
(* StatementList                                                           *)

\* s.execute(makefile, context): the call is traced, then dispatched on the
\* class of the statement
Statement_execute(s, e) ==
    LET e1 == Log(e, Executed(s)) IN
         CASE s.kind = "Override" -> Override_execute(s, e1)
           [] s.kind = "Rule" -> Rule_execute(s, e1)
           [] s.kind = "StaticPatternRule" -> StaticPatternRule_execute(s, e1)
           [] s.kind = "Command" -> Command_execute(s, e1)
           [] s.kind = "SetVariable" -> SetVariable_execute(s, e1)
           [] s.kind = "ConditionBlock" -> ConditionBlock_execute(s, e1)
           [] s.kind = "Include" -> Include_execute(s, e1)
           [] s.kind = "VPathDirective" -> VPathDirective_execute(s, e1)
           [] s.kind = "ExportDirective" -> ExportDirective_execute(s, e1)
           [] s.kind = "EmptyDirective" -> EmptyDirective_execute(s, e1)

\* mutant: a failed statement does not end the loop
StatementList_execute_GoesOn(list, e) ==
    IF list = <<>> THEN e
    ELSE StatementList_execute(Tail(list), Statement_execute(Head(list), e))

\* StatementList.execute with the context given: for s in self
StatementList_execute(list, e) ==
    IF list = <<>> \/ e.raised # NoError THEN e
    ELSE StatementList_execute(Tail(list), Statement_execute(Head(list), e))

----------------------------------------------------------------------------
(* The statements the parser hands to the engine                           *)

Override(s) == [kind |-> "Override", s |-> s]
Rule(targetexp, depexp, doublecolon) ==
    [kind |-> "Rule", targetexp |-> targetexp, depexp |-> depexp,
     doublecolon |-> doublecolon]
StaticPatternRule(targetexp, patternexp, depexp, doublecolon) ==
    [kind |-> "StaticPatternRule", targetexp |-> targetexp,
     patternexp |-> patternexp, depexp |-> depexp, doublecolon |-> doublecolon]
Command(exp) == [kind |-> "Command", exp |-> exp]
SetVariable(vnameexp, token, value, valueloc, targetexp, source) ==
    [kind |-> "SetVariable", vnameexp |-> vnameexp, token |-> token,
     value |-> value, valueloc |-> valueloc, targetexp |-> targetexp,
     source |-> source]
ConditionBlock(g) == [kind |-> "ConditionBlock", groups |-> g]
Include(exp, required) == [kind |-> "Include", exp |-> exp, required |-> required]
VPathDirective(exp) == [kind |-> "VPathDirective", exp |-> exp]
ExportDirective(exp, single) ==
    [kind |-> "ExportDirective", exp |-> exp, single |-> single]
EmptyDirective(exp) == [kind |-> "EmptyDirective", exp |-> exp]

EqCondition(exp1, exp2, expected) ==
    [cond |-> "EqCondition", expected |-> expected, exp1 |-> exp1, exp2 |-> exp2]
IfdefCondition(exp, expected) ==
    [cond |-> "IfdefCondition", expected |-> expected, exp |-> exp]
ElseCondition == [cond |-> "ElseCondition"]

\* the Expansion of a text without variable references
Text(s) == IF s = "" THEN <<>> ELSE <<Lit(Str(s))>>
\* the Expansion $(name)
Var(name) == <<Ref(Str(name))>>

\* where the value of NAME token value starts, the line read from column 0
ValueLoc(name, token) ==
    Location_add(Location("Makefile", 1, 0), Str(name) \o <<" ">> \o Str(token) \o <<" ">>)

\* NAME token value, in a makefile
Assign(name, token, value) ==
    SetVariable(Text(name), token, Str(value), ValueLoc(name, token), None,
                SOURCE_MAKEFILE)

\* a ConditionBlock as the parser builds it: the constructor's
\* addcondition, then append and addcondition calls; clauses is a sequence
\* of <<condition, statements>>
RECURSIVE BuildStatements(_, _)
BuildStatements(g, statements) ==
    IF statements = <<>> THEN g
    ELSE BuildStatements(ConditionBlock_append(g, Head(statements)), Tail(statements))

RECURSIVE BuildGroups(_, _)
BuildGroups(g, clauses) ==
    IF clauses = <<>> THEN g
    ELSE BuildGroups(
             BuildStatements(ConditionBlock_addcondition(g, Head(clauses)[1]).groups,
                             Head(clauses)[2]),
             Tail(clauses))

Block(clauses) == ConditionBlock(BuildGroups(<<>>, clauses))

----------------------------------------------------------------------------
(* The command line                                                        *)

\* data.Expansion.fromstring(s): the Expansion of a text taken literally
Expansion_fromstring(s) == IF s = <<>> THEN <<>> ELSE <<Lit(s)>>

\* the separator found, as the token of a SetVariable
Token(sep) == IF sep = <<":", "=">> THEN ":=" ELSE "="

RECURSIVE parsecommandlineargs_loop(_, _, _, _)

\* mutant: the argument is split on '=' first, then on ':='
parsecommandlineargs_loop_EqFirst(args, i, stmts, r) ==
    IF i >= Len(args) THEN [stmts |-> stmts, r |-> r]
    ELSE LET a == args[i + 1]
             first == partition(a, <<"=">>)
             p == IF first[2] = <<>> THEN partition(a, <<":", "=">>) ELSE first
             t == p[2]
             val == p[3]
             vname == strip(p[1])
         IN  IF t # <<>>
             THEN parsecommandlineargs_loop(args, i + 1,
                      stmts \o <<Override(a),
                                 SetVariable(Expansion_fromstring(vname), Token(t), val,
                                     Location("<command-line>", i, Len(vname) + Len(t)),
                                     None, SOURCE_COMMANDLINE)>>,
                      r)
             ELSE parsecommandlineargs_loop(args, i + 1, stmts, Append(r, a))

\* for i in xrange(0, len(args)), from index i on
parsecommandlineargs_loop(args, i, stmts, r) ==
    IF i >= Len(args) THEN [stmts |-> stmts, r |-> r]
    ELSE LET a == args[i + 1]
             first == partition(a, <<":", "=">>)
             p == IF first[2] = <<>> THEN partition(a, <<"=">>) ELSE first
             t == p[2]
             val == p[3]
             vname == strip(p[1])
         IN  IF t # <<>>
             THEN parsecommandlineargs_loop(args, i + 1,
                      stmts \o <<Override(a),
                                 SetVariable(Expansion_fromstring(vname), Token(t), val,
                                     Location("<command-line>", i, Len(vname) + Len(t)),
                                     None, SOURCE_COMMANDLINE)>>,
                      r)
             ELSE parsecommandlineargs_loop(args, i + 1, stmts, Append(r, a))

\* parsecommandlineargs(args): [stmts, r]
parsecommandlineargs(args) == parsecommandlineargs_loop(args, 0, <<>>, <<>>)

----------------------------------------------------------------------------
(* The inputs: the statements a pass may hold                              *)

\* rules: two explicit targets, one explicit target, a pattern, a pattern
\* mixed with an explicit target, no target at all (an empty expansion, an
\* undefined variable, a wildcard nothing matches), a wildcard that matches
\* a.o, a double-colon rule
RuleAB == Rule(Text("a.o b.o"), Text("a.c"), FALSE)
RuleB == Rule(Text("b.o"), Text("b.c"), FALSE)
RulePattern == Rule(Text("%.o"), Text("%.c"), FALSE)
RuleMixed == Rule(Text("%.o b.c"), Text(""), FALSE)
RuleEmpty == Rule(Text(" "), Text("a.c"), FALSE)
RuleUndefined == Rule(Var("T"), Text(""), FALSE)
RuleNoMatch == Rule(Text("*.x"), Text(""), FALSE)
RuleGlob == Rule(Text("*.o"), Text(""), TRUE)

Rules ==
    {RuleAB, RuleB, RulePattern, RuleMixed, RuleEmpty, RuleUndefined,
     RuleNoMatch, RuleGlob}

StaticAB == StaticPatternRule(Text("a.o b.o"), Text("%.o"), Text("%.c"), FALSE)
StaticNoMatch == StaticPatternRule(Text("a.o a.x"), Text("%.o"), Text("%.c"), FALSE)
StaticPattern == StaticPatternRule(Text("%.o"), Text("%.o"), Text("%.c"), FALSE)
StaticTwo == StaticPatternRule(Text("a.o"), Text("%.o %.x"), Text("%.c"), FALSE)
StaticEmpty == StaticPatternRule(Text(""), Text("%.o"), Text("%.c"), FALSE)
StaticNoPattern == StaticPatternRule(Text("a.o"), Var("P"), Text("%.c"), FALSE)
StaticMiddle == StaticPatternRule(Text("b.o a.x a.o"), Text("%.o"), Text("%.c"), TRUE)

StaticPatternRules ==
    {StaticAB, StaticNoMatch, StaticPattern, StaticTwo, StaticEmpty,
     StaticNoPattern, StaticMiddle}

Command1 == Command(Text("c1"))
Command2 == Command(Text("c2"))

Commands == {Command1, Command2}

\* conditions that do not read a variable: ifeq "" "", ifneq "" ""
IfTrue == EqCondition(Text(""), Text(""), TRUE)
IfFalse == EqCondition(Text(""), Text(""), FALSE)

\* blocks around rules and commands; the last two fail inside a clause,
\* the very last inside a block nested in a clause
BlockRule == Block(<< <<IfTrue, <<RuleB>>>> >>)
BlockCommand == Block(<< <<IfTrue, <<Command2>>>> >>)
BlockElse == Block(<< <<IfFalse, <<RuleB>>>>, <<ElseCondition, <<Command2>>>> >>)
BlockSkip == Block(<< <<IfFalse, <<RuleB, Command2>>>> >>)
BlockEmptyRule == Block(<< <<IfTrue, <<RuleNoMatch, Command2>>>> >>)
BlockFail == Block(<< <<IfTrue, <<RuleB, Command2, RuleMixed, Command1>>>> >>)
BlockStatic == Block(<< <<IfTrue, <<StaticAB>>>> >>)
BlockNested ==
    Block(<< <<IfTrue, <<Command2, BlockFail, Command1>>>>,
             <<ElseCondition, <<Command1>>>> >>)

RuleBlocks ==
    {BlockRule, BlockStatic, BlockCommand, BlockElse, BlockSkip, BlockEmptyRule,
     BlockFail, BlockNested}

----------------------------------------------------------------------------
(* The pass over the top-level StatementList                               *)

Init ==
    /\ makefile = NewMakefile
    /\ heap = <<>>
    /\ context = NewContext
    /\ raised = NoError
    /\ trace = <<>>
    /\ done = <<>>
    /\ groups = <<>>
    /\ argv = <<>>
    /\ parsed = None
    /\ loc = Location("Makefile", 1, 0)
    /\ data = <<>>

\* one turn of the loop of StatementList.execute on the top-level list: the
\* next statement is executed; an exception ends the pass
Execute(s) ==
    /\ raised = NoError
    /\ Len(done) < MaxSteps
    /\ LET e == Statement_execute(s, [makefile |-> makefile, heap |-> heap,
                                      context |-> context, raised |-> NoError,
                                      trace |-> <<>>])
       IN  /\ makefile' = e.makefile
           /\ heap' = e.heap
           /\ context' = e.context
           /\ raised' = e.raised
           /\ trace' = e.trace
    /\ done' = Append(done, s)
    /\ UNCHANGED <<groups, argv, parsed, loc, data>>

ExecuteRule == \E s \in Rules : Execute(s)
ExecuteStaticPatternRule == \E s \in StaticPatternRules : Execute(s)
ExecuteCommand == \E s \in Commands : Execute(s)
ExecuteRuleBlock == \E s \in RuleBlocks : Execute(s)

NextRules ==
    \/ ExecuteRule
    \/ ExecuteStaticPatternRule
    \/ ExecuteCommand
    \/ ExecuteRuleBlock

\* a pass over rules, static pattern rules, commands and blocks of them
SpecRules == Init /\ [][NextRules]_vars

----------------------------------------------------------------------------
(* A pass over variable assignments and conditional blocks                 *)

\* X = 1, X = 2, X = (an empty value), Y = $(X), Y := $(X), N = X,
\* X = 9 from the command line, an assignment whose name expands to
\* nothing, an assignment with a token the parser never produces
AssignX1 == Assign("X", "=", "1")
AssignX2 == Assign("X", "=", "2")
AssignXEmpty == Assign("X", "=", "")
AssignYRecursive == Assign("Y", "=", "$(X)")
AssignYSimple == Assign("Y", ":=", "$(X)")
AssignN == Assign("N", ":=", "X")
AssignXCommandLine ==
    SetVariable(Text("X"), "=", Str("9"), Location("<command-line>", 0, 2), None,
                SOURCE_COMMANDLINE)
AssignNoName ==
    SetVariable(Var("U"), "=", Str("1"), ValueLoc("$(U)", "="), None,
                SOURCE_MAKEFILE)
AssignBadToken == Assign("X", "!=", "1")

Assignments ==
    {AssignX1, AssignX2, AssignXEmpty, AssignYRecursive, AssignYSimple, AssignN,
     AssignXCommandLine, AssignNoName, AssignBadToken}

\* the statements of the clauses: each clause leaves its own mark in Z
Mark(z) == Assign("Z", "=", z)

IfdefX == IfdefCondition(Text("X"), TRUE)
IfndefX == IfdefCondition(Text("X"), FALSE)
IfdefN == IfdefCondition(Var("N"), TRUE)
IfndefN == IfdefCondition(Var("N"), FALSE)
IfeqX1 == EqCondition(Var("X"), Text("1"), TRUE)
IfneqX1 == EqCondition(Var("X"), Text("1"), FALSE)
IfeqY2 == EqCondition(Var("Y"), Text("2"), TRUE)
IfdefY == IfdefCondition(Text("Y"), TRUE)

\* ifdef X / else;  ifdef Y / else;  ifndef X / ifeq ($(X),1) / else;  ifeq ($(X),1) /
\* ifdef X (two clauses can hold at once);  ifneq ($(X),1) / ifeq ($(Y),2)
\* (no clause may hold);  ifndef X whose clause sets X, so that the next
\* condition holds once the clause has run;  ifdef $(N) / ifndef $(N);
\* a clause whose second statement fails
BlockIfdef == Block(<< <<IfdefX, <<Mark("a")>>>>, <<ElseCondition, <<Mark("b")>>>> >>)
BlockIfndef ==
    Block(<< <<IfndefX, <<Mark("a")>>>>, <<IfeqX1, <<Mark("b")>>>>,
             <<ElseCondition, <<Mark("c")>>>> >>)
BlockBoth == Block(<< <<IfeqX1, <<Mark("a")>>>>, <<IfdefX, <<Mark("b")>>>> >>)
BlockNone == Block(<< <<IfneqX1, <<>>>>, <<IfeqY2, <<Mark("b")>>>> >>)
BlockSetsX ==
    Block(<< <<IfndefX, <<AssignX1, Mark("a")>>>>, <<IfeqX1, <<Mark("b")>>>>,
             <<IfdefX, <<Mark("c")>>>> >>)
BlockIfdefN == Block(<< <<IfdefN, <<Mark("a")>>>>, <<IfndefN, <<Mark("b")>>>> >>)
BlockIfdefY == Block(<< <<IfdefY, <<Mark("a")>>>>, <<ElseCondition, <<Mark("b")>>>> >>)
BlockFailing ==
    Block(<< <<IfneqX1, <<Mark("a"), AssignNoName, Mark("b")>>>>,
             <<ElseCondition, <<Mark("c")>>>> >>)

VariableBlocks ==
    {BlockIfdef, BlockIfdefY, BlockIfndef, BlockBoth, BlockNone, BlockSetsX,
     BlockIfdefN, BlockFailing}

ExecuteSetVariable == \E s \in Assignments : Execute(s)
ExecuteVariableBlock == \E s \in VariableBlocks : Execute(s)

NextVariables ==
    \/ ExecuteSetVariable
    \/ ExecuteVariableBlock

SpecVariables == Init /\ [][NextVariables]_vars

----------------------------------------------------------------------------
(* A pass over assignments to the scopes of targets and patterns           *)

\* targets: NAME token value, in a makefile
Scoped(targets, name, token, value) ==
    SetVariable(Text(name), token, Str(value), ValueLoc(name, token),
                Some(Text(targets)), SOURCE_MAKEFILE)

\* X ?= 5;  a.o b.o: V = $(X);  %.o a.o: V := $(X);  a.o a.o: V := $(X);
\* $(T): V = 1 (no target at all);  a.o %.o: V ?= 3;  a.o: V = (an empty
\* value);  a.o: override V = 9;  a.o: $(U) = 1 (no name)
AssignXDefault == Assign("X", "?=", "5")
ScopedAB == Scoped("a.o b.o", "V", "=", "$(X)")
ScopedSimple == Scoped("%.o a.o", "V", ":=", "$(X)")
ScopedTwice == Scoped("a.o a.o", "V", ":=", "$(X)")
ScopedNone ==
    SetVariable(Text("V"), "=", Str("1"), ValueLoc("V", "="), Some(Var("T")),
                SOURCE_MAKEFILE)
ScopedDefault == Scoped("a.o %.o", "V", "?=", "3")
ScopedEmpty == Scoped("a.o", "V", "=", "")
ScopedOverride ==
    SetVariable(Text("V"), "=", Str("9"), ValueLoc("override V", "="),
                Some(Text("a.o")), SOURCE_OVERRIDE)
ScopedNoName ==
    SetVariable(Var("U"), "=", Str("1"), ValueLoc("$(U)", "="), Some(Text("a.o")),
                SOURCE_MAKEFILE)

ScopedAssignments ==
    {AssignX1, AssignXEmpty, AssignXCommandLine, AssignXDefault, ScopedAB,
     ScopedSimple, ScopedTwice, ScopedNone, ScopedDefault, ScopedEmpty,
     ScopedOverride, ScopedNoName}

ExecuteScoped == \E s \in ScopedAssignments : Execute(s)

NextScoped == ExecuteScoped

SpecScoped == Init /\ [][NextScoped]_vars

----------------------------------------------------------------------------
(* A pass over directives                                                  *)

\* D = %.h lib
AssignD == Assign("D", "=", "%.h lib")

\* vpath;  vpath %.c;  vpath %.c src:inc;  vpath %.h inc;  vpath %.c : ::
\* (no directory in the words);  vpath %.c a: :b;  vpath $(D)
VPathClearAll == VPathDirective(Text(""))
VPathClearC == VPathDirective(Text("%.c"))
VPathC == VPathDirective(Text("%.c src:inc"))
VPathH == VPathDirective(Text("%.h inc"))
VPathNoDirs == VPathDirective(Text("%.c : ::"))
VPathMany == VPathDirective(Text("%.c a: :b"))
VPathD == VPathDirective(Var("D"))

VPathDirectives ==
    {VPathClearAll, VPathClearC, VPathC, VPathH, VPathNoDirs, VPathMany, VPathD}

\* export (no name);  export $(D);  export A B;  and the forms that export
\* one name: A B, the empty name, $(D)
ExportNone == ExportDirective(Text(""), FALSE)
ExportD == ExportDirective(Var("D"), FALSE)
ExportAB == ExportDirective(Text("A B"), FALSE)
ExportSingleAB == ExportDirective(Text("A B"), TRUE)
ExportSingleNone == ExportDirective(Text(""), TRUE)
ExportSingleD == ExportDirective(Var("D"), TRUE)

ExportDirectives ==
    {ExportNone, ExportD, ExportAB, ExportSingleAB, ExportSingleNone, ExportSingleD}

\* include a.o (a file of the working directory);  include b.mk and
\* -include b.mk (no such file)
IncludeA == Include(Text("a.o"), TRUE)
IncludeMissing == Include(Text("a.o b.mk a.o"), TRUE)
IncludeOptional == Include(Text("b.mk a.o"), FALSE)

Includes == {IncludeA, IncludeMissing, IncludeOptional}

\* a line that expands to blanks, to what D holds, to a word
EmptyBlank == EmptyDirective(Text("  "))
EmptyD == EmptyDirective(Var("D"))
EmptyWord == EmptyDirective(Text(" x "))

EmptyDirectives == {EmptyBlank, EmptyD, EmptyWord}

ExecuteVPathDirective == \E s \in VPathDirectives : Execute(s)
ExecuteExportDirective == \E s \in ExportDirectives : Execute(s)
ExecuteInclude == \E s \in Includes : Execute(s)
ExecuteEmptyDirective == \E s \in EmptyDirectives : Execute(s)

NextDirectives ==
    \/ Execute(AssignD)
    \/ ExecuteVPathDirective
    \/ ExecuteExportDirective
    \/ ExecuteInclude
    \/ ExecuteEmptyDirective

SpecDirectives == Init /\ [][NextDirectives]_vars

----------------------------------------------------------------------------
(* A pass over statements of every kind                                    *)

OverrideCC == Override(Str("CC=gcc"))

\* a clause with one statement of every kind that defines no rule, its
\* command last
BlockMany ==
    Block(<< <<IfFalse, <<RuleB>>>>,
             <<IfTrue, <<OverrideCC, AssignX1, ScopedAB, IncludeA, VPathC, ExportAB,
                        EmptyBlank, BlockIfdef, Command2>>>> >>)

PassStatements ==
    {RuleAB, RuleB, RuleEmpty, StaticAB, Command1, OverrideCC, AssignX1, ScopedAB,
     IncludeA, IncludeMissing, VPathC, ExportAB, ExportNone, EmptyBlank, EmptyWord,
     BlockCommand, BlockElse, BlockIfdef, BlockRule, BlockMany}

ExecuteStatement == \E s \in PassStatements : Execute(s)

NextPass == ExecuteStatement

SpecPass == Init /\ [][NextPass]_vars

----------------------------------------------------------------------------
(* The command line of an invocation: its arguments are parsed, and the    *)
(* statements they give are executed                                       *)

\* arguments of one command line
MaxArgs == 3

\* CC=gcc, all, X:=1, A=b:=c, an assignment with blanks around the name,
\* an assignment without a name, a word with a colon, clean
Argv ==
    {Str("CC=gcc"), Str("all"), Str("X:=1"), Str("A=b:=c"), Str(" Y = 2"),
     Str("=v"), Str("a:b"), Str("clean")}

ArgLists == UNION {[1..n -> Argv] : n \in 0..MaxArgs}

InitCommandLine ==
    /\ makefile = NewMakefile
    /\ heap = <<>>
    /\ context = NewContext
    /\ raised = NoError
    /\ trace = <<>>
    /\ done = <<>>
    /\ groups = <<>>
    /\ argv \in ArgLists
    /\ parsed = None
    /\ loc = Location("Makefile", 1, 0)
    /\ data = <<>>

\* stmts, r = parsecommandlineargs(argv)
ParseCommandLine ==
    /\ parsed = None
    /\ parsed' = Some(parsecommandlineargs(argv))
    /\ UNCHANGED <<makefile, heap, context, raised, trace, done, groups, argv, loc, data>>

\* stmts.execute(makefile): the whole list, with a context of its own
ExecuteOverrides ==
    /\ parsed # None
    /\ done = <<>> /\ raised = NoError
    /\ LET e == StatementList_execute(parsed[1].stmts,
                     [makefile |-> makefile, heap |-> heap, context |-> NewContext,
                      raised |-> NoError, trace |-> <<>>])
       IN  /\ makefile' = e.makefile
           /\ heap' = e.heap
           /\ raised' = e.raised
           /\ trace' = e.trace
           /\ done' = [i \in 1..Len(e.trace) |-> e.trace[i].s]
    /\ UNCHANGED <<context, groups, argv, parsed, loc, data>>

NextCommandLine ==
    \/ ParseCommandLine
    \/ ExecuteOverrides

SpecCommandLine == InitCommandLine /\ [][NextCommandLine]_vars

----------------------------------------------------------------------------
(* The parser's walk along one line: the location is advanced by the text  *)
(* consumed                                                                *)

\* characters of one line
MaxLine == 7

\* a character that is no tab, and the tab
Chars == {"x", "\t"}

Texts == UNION {[1..n -> Chars] : n \in 0..MaxLine}

\* the start of a line of a makefile, of an argument of the command line
InitLocation ==
    /\ makefile = NewMakefile
    /\ heap = <<>>
    /\ context = NewContext
    /\ raised = NoError
    /\ trace = <<>>
    /\ done = <<>>
    /\ groups = <<>>
    /\ argv = <<>>
    /\ parsed = None
    /\ loc \in {Location("Makefile", 1, 0), Location("<command-line>", 0, 0)}
    /\ data = <<>>

\* loc = loc + text
Advance(text) ==
    /\ Len(data) + Len(text) <= MaxLine
    /\ loc' = Location_add(loc, text)
    /\ data' = data \o text
    /\ UNCHANGED <<makefile, heap, context, raised, trace, done, groups, argv, parsed>>

NextLocation == \E text \in Texts : Advance(text)

SpecLocation == InitLocation /\ [][NextLocation]_vars

----------------------------------------------------------------------------
(* The parser's construction of one ConditionBlock                         *)

\* the size of the block under construction: its clauses and statements
RECURSIVE BlockSize(_)
BlockSize(g) ==
    IF g = <<>> THEN 0
    ELSE 1 + Len(Head(g).statements) + BlockSize(Tail(g))

BuildConditions == {IfdefX, IfeqX1, ElseCondition}
BuildStatementsOf == {Command1, AssignX1}

\* ConditionBlock(loc, condition)
Construct(c) ==
    /\ groups = <<>>
    /\ LET r == ConditionBlock_addcondition(<<>>, c) IN
           /\ groups' = r.groups
           /\ raised' = r.raised
    /\ UNCHANGED <<makefile, heap, context, trace, done, argv, parsed, loc, data>>

\* block.addcondition(loc, condition): a SyntaxError leaves the block to
\* the caller, who may go on calling
AddCondition(c) ==
    /\ groups # <<>>
    /\ LET r == ConditionBlock_addcondition(groups, c) IN
           /\ BlockSize(r.groups) <= MaxBuild
           /\ groups' = r.groups
           /\ raised' = r.raised
    /\ UNCHANGED <<makefile, heap, context, trace, done, argv, parsed, loc, data>>

\* block.append(statement)
AppendStatement(s) ==
    /\ groups # <<>>
    /\ BlockSize(groups) < MaxBuild
    /\ groups' = ConditionBlock_append(groups, s)
    /\ raised' = NoError
    /\ UNCHANGED <<makefile, heap, context, trace, done, argv, parsed, loc, data>>

NextBuild ==
    \/ \E c \in BuildConditions : Construct(c)
    \/ \E c \in BuildConditions : AddCondition(c)
    \/ \E s \in BuildStatementsOf : AppendStatement(s)

SpecBuild == Init /\ [][NextBuild]_vars

----------------------------------------------------------------------------
(* Every statement kind in one pass                                        *)

Next ==
    \/ NextRules
    \/ NextVariables
    \/ NextScoped
    \/ NextDirectives
    \/ NextPass

Spec == Init /\ [][Next]_vars

----------------------------------------------------------------------------
(* What the claims are stated with                                         *)

Last(seq) == seq[Len(seq)]

\* this step executed one more statement of the pass
Stepped == done' = Append(done, Last(done'))

\* the execution record before the step and after it
Before ==
    [makefile |-> makefile, heap |-> heap, context |-> context,
     raised |-> raised, trace |-> <<>>]
After ==
    [makefile |-> makefile', heap |-> heap', context |-> context',
     raised |-> raised', trace |-> trace']

\* the first clause of g whose condition holds in mk, 0 when none holds
FirstTrue(g, mk) ==
    IF \E i \in 1..Len(g) : Condition_evaluate(g[i].c, mk)
    THEN CHOOSE i \in 1..Len(g) :
             /\ Condition_evaluate(g[i].c, mk)
             /\ \A j \in 1..(i-1) : ~Condition_evaluate(g[j].c, mk)
    ELSE 0

\* the global binding of a name, and what a read of $(name) gives
Binding(mk, name) == mk.variables[Str(name)]
Bound(mk, name) == Str(name) \in DOMAIN mk.variables
Read(mk, name) == resolve(Var(name), mk.variables)

----------------------------------------------------------------------------
(* C1: one call of ConditionBlock.execute evaluates the conditions of the  *)
(* clauses in declaration order up to and including the first one that     *)
(* holds and no further, and runs the statement list of that clause and of *)
(* no other; when no condition holds every condition has been evaluated,   *)
(* no statement has run and the model, the rule objects and the context    *)
(* are as before.                                                          *)
C1_FirstTrueClauseOnly ==
    [][ (Stepped /\ Last(done').kind = "ConditionBlock") =>
        LET s == Last(done')
            g == s.groups
            k == FirstTrue(g, makefile)
            called == [Before EXCEPT !.trace = <<Executed(s)>>]
        IN  IF k = 0
            THEN After = [called EXCEPT !.trace =
                            @ \o [i \in 1..Len(g) |-> Evaluated(i - 1, FALSE)]]
            ELSE After = StatementList_execute(g[k].statements,
                            [called EXCEPT !.trace =
                                @ \o [i \in 1..k |-> Evaluated(i - 1, i = k)]])
      ]_vars

\* C1's case: ifeq ($(X),1) / ifdef X ran with X = 1, where both conditions
\* hold, and only the mark of the first clause is there
C1_Witness ==
    /\ done # <<>>
    /\ Last(done) = BlockBoth
    /\ Read(makefile, "X") = Str("1")
    /\ Condition_evaluate(IfeqX1, makefile) /\ Condition_evaluate(IfdefX, makefile)
    /\ Bound(makefile, "Z") /\ Binding(makefile, "Z").value = Str("a")
    /\ trace = <<Executed(BlockBoth), Evaluated(0, TRUE), Executed(Mark("a"))>>

----------------------------------------------------------------------------
(* C2: SetVariable with ':=' parses its value text and resolves it against *)
(* the global scope as it is when the statement executes, and hands the    *)
(* resulting string to the scope under the simple flavor; with '=' it      *)
(* hands over the raw text under the recursive flavor.  After X = 1,       *)
(* Y := $(X), X = 2 the stored value of Y is "1" and a read of Y gives     *)
(* "1"; after X = 1, Y = $(X), X = 2 the stored value of Y is the text     *)
(* $(X) and a read of Y gives "2".  A later assignment to X leaves what a  *)
(* simple Y reads unchanged, and a recursive Y = $(X) reads what X reads.  *)
C2_SimpleNowRecursiveLater ==
    [][ Stepped =>
        LET s == Last(done')
            global == s.kind = "SetVariable" /\ s.targetexp = None
            vname == resolve(s.vnameexp, makefile.variables)
            now == resolve(parsemakesyntax(s.value), makefile.variables)
        IN  /\ (global /\ vname # <<>> /\ s.token = ":=") =>
                   makefile'.variables =
                       Variables_set(makefile.variables, vname, FLAVOR_SIMPLE,
                                     s.source, now)
            /\ (global /\ vname # <<>> /\ s.token = "=") =>
                   makefile'.variables =
                       Variables_set(makefile.variables, vname, FLAVOR_RECURSIVE,
                                     s.source, s.value)
            /\ (done' = <<AssignX1, AssignYSimple, AssignX2>>) =>
                   /\ Binding(makefile', "Y") =
                          [flavor |-> FLAVOR_SIMPLE, source |-> SOURCE_MAKEFILE,
                           value |-> Str("1")]
                   /\ Read(makefile', "Y") = Str("1")
                   /\ Read(makefile', "X") = Str("2")
            /\ (done' = <<AssignX1, AssignYRecursive, AssignX2>>) =>
                   /\ Binding(makefile', "Y") =
                          [flavor |-> FLAVOR_RECURSIVE, source |-> SOURCE_MAKEFILE,
                           value |-> Str("$(X)")]
                   /\ Read(makefile', "Y") = Str("2")
            /\ (global /\ vname = Str("X") /\ Bound(makefile, "Y")) =>
                   /\ Binding(makefile', "Y") = Binding(makefile, "Y")
                   /\ Binding(makefile, "Y").flavor = FLAVOR_SIMPLE =>
                          Read(makefile', "Y") = Read(makefile, "Y")
                   /\ Binding(makefile, "Y").flavor = FLAVOR_RECURSIVE =>
                          Read(makefile', "Y") = Read(makefile', "X")
      ]_vars

\* C2's case: X = 1, Y := $(X), X = 2 have run; X reads "2", Y still "1"
C2_Witness ==
    /\ done = <<AssignX1, AssignYSimple, AssignX2>>
    /\ raised = NoError
    /\ Read(makefile, "X") = Str("2")
    /\ Binding(makefile, "Y").flavor = FLAVOR_SIMPLE
    /\ Binding(makefile, "Y").value = Str("1")

----------------------------------------------------------------------------
(* C3 as claimed: a definedness condition evaluates to false, for either   *)
(* expected polarity, whenever the variable named by its resolved          *)
(* expansion is absent from the global scope; when the variable is present *)
(* it evaluates to (stored unexpanded value is non-empty) = expected.      *)
(* Every evaluation a block makes is in its trace with its result; the     *)
(* conditions of a block are evaluated before any of its statements runs,  *)
(* that is, in the scope as it is before the step.                         *)
IfdefAsClaimed(c, mk) ==
    LET vname == resolve(c.exp, mk.variables) IN
    IF vname \notin DOMAIN mk.variables THEN FALSE
    ELSE (mk.variables[vname].value # <<>>) = c.expected

IfdefAmended(c, mk) ==
    LET vname == resolve(c.exp, mk.variables) IN
    IF vname \notin DOMAIN mk.variables THEN ~c.expected
    ELSE (mk.variables[vname].value # <<>>) = c.expected

\* the evaluations of the trace whose condition is a definedness condition
\* give what result(c, mk) says
IfdefResults(result(_, _)) ==
    (Stepped /\ Last(done').kind = "ConditionBlock") =>
        LET g == Last(done').groups IN
        \A n \in 1..Len(trace') :
            (trace'[n].ev = "evaluate"
                /\ g[trace'[n].i + 1].c.cond = "IfdefCondition") =>
                    trace'[n].r = result(g[trace'[n].i + 1].c, makefile)

C3_AsClaimed == [][IfdefResults(IfdefAsClaimed)]_vars

\* C3, amended: for an absent variable the condition evaluates to the
\* negation of its expected polarity (false for ifdef, true for ifndef);
\* for a present one to (stored unexpanded value is non-empty) = expected.
C3_IfdefAbsentIsNotExpected == [][IfdefResults(IfdefAmended)]_vars

\* C3's case: ifndef X was evaluated with X absent, and held
C3_Witness ==
    /\ done # <<>>
    /\ Last(done) = BlockIfndef
    /\ ~Bound(makefile, "X")
    /\ trace[2] = Evaluated(0, TRUE)
    /\ Binding(makefile, "Z").value = Str("a")

----------------------------------------------------------------------------
(* Rules: the words a target expansion stands for                          *)

\* the resolved, wildcard-expanded words of an expansion
Words(exp, mk) == expandwildcards(mk, splitwords(resolve(exp, mk.variables)))

AllPatterns(words) == \A i \in 1..Len(words) : Pattern_ispattern(words[i])
NoPatterns(words) == \A i \in 1..Len(words) : ~Pattern_ispattern(words[i])

\* the rule list of a target, empty when the target has no entry
RulesOf(mk, name) ==
    IF name \in DOMAIN mk.targets THEN mk.targets[name].rules ELSE <<>>

\* this step executed a Rule statement of the top-level list
RuleStep == Stepped /\ Last(done').kind = "Rule"

----------------------------------------------------------------------------
(* C4: Rule.execute with a non-empty target list of patterns only appends  *)
(* exactly one pattern rule to the implicit-rule sequence, creates or      *)
(* modifies no target-table entry and records no goal; with a non-empty    *)
(* list of non-patterns only it attaches one and the same rule object to   *)
(* the entry of every named target (created on demand), leaves every other *)
(* entry as it was, appends nothing to the implicit-rule sequence and      *)
(* reports the first target of the list to the model as discovered goal    *)
(* (the model records it when it has no goal yet).                         *)
C4_PatternOrExplicitRule ==
    [][ RuleStep =>
        LET s == Last(done')
            targets == Words(s.targetexp, makefile)
            ref == Len(heap) + 1
        IN  /\ (targets # <<>> /\ AllPatterns(targets)) =>
                /\ raised' = NoError
                /\ Len(heap') = ref
                /\ heap'[ref].type = "PatternRule"
                /\ heap'[ref].targetpatterns = targets
                /\ makefile'.implicitrules = Append(makefile.implicitrules, ref)
                /\ makefile'.targets = makefile.targets
                /\ makefile'.defaulttarget = makefile.defaulttarget
            /\ (targets # <<>> /\ NoPatterns(targets)) =>
                /\ raised' = NoError
                /\ Len(heap') = ref
                /\ heap'[ref].type = "Rule"
                /\ \A i \in 1..Len(targets) :
                       /\ targets[i] \in DOMAIN makefile'.targets
                       /\ RulesOf(makefile', targets[i]) =
                              Append(RulesOf(makefile, targets[i]), RuleEntry(ref))
                /\ \A n \in DOMAIN makefile'.targets :
                       (\A i \in 1..Len(targets) : targets[i] # n) =>
                           /\ n \in DOMAIN makefile.targets
                           /\ makefile'.targets[n] = makefile.targets[n]
                /\ makefile'.implicitrules = makefile.implicitrules
                /\ makefile'.defaulttarget = Makefile_foundtarget(makefile, targets[1]).defaulttarget
                /\ makefile.defaulttarget = None => makefile'.defaulttarget = Some(targets[1])
      ]_vars

\* C4's case: a.o b.o: a.c has run first: both entries hold the same rule
\* object and a.o is the goal
C4_Witness ==
    /\ done # <<>>
    /\ Last(done) = RuleAB
    /\ raised = NoError
    /\ makefile.defaulttarget = Some(Str("a.o"))
    /\ RulesOf(makefile, Str("a.o")) = <<RuleEntry(Len(heap))>>
    /\ RulesOf(makefile, Str("b.o")) = <<RuleEntry(Len(heap))>>
    /\ makefile.implicitrules = <<>>

----------------------------------------------------------------------------
(* C5: Rule.execute whose resolved target list holds a pattern word and a  *)
(* non-pattern word fails with a DataError and leaves the target table,    *)
(* the implicit-rule sequence, the recorded goal and the context's current *)
(* rule as they were.                                                      *)
C5_MixedTargetsFail ==
    [][ RuleStep =>
        LET targets == Words(Last(done').targetexp, makefile) IN
        (~AllPatterns(targets) /\ ~NoPatterns(targets)) =>
            /\ raised' = "DataError"
            /\ makefile'.targets = makefile.targets
            /\ makefile'.implicitrules = makefile.implicitrules
            /\ makefile'.defaulttarget = makefile.defaulttarget
            /\ context'.currule = context.currule
      ]_vars

\* C5's case: %.o b.c: failed after a rule had been defined
C5_Witness ==
    /\ Len(done) >= 2
    /\ Last(done) = RuleMixed
    /\ raised = "DataError"
    /\ context.currule = RuleRef(1)
    /\ makefile.targets # << >>

----------------------------------------------------------------------------
(* C6: after any sequence of addcondition calls on a ConditionBlock, the   *)
(* constructor's and the failing ones included, the clause list holds at   *)
(* most one else-clause, and an else-clause is the last clause.            *)
C6_ElseClauseIsLast ==
    \A i \in 1..Len(groups) :
        groups[i].c.cond = "ElseCondition" => i = Len(groups)

\* C6's case: a block that ends in an else-clause has refused a clause
C6_Witness ==
    /\ Len(groups) >= 2
    /\ Last(groups).c.cond = "ElseCondition"
    /\ raised = "SyntaxError"

----------------------------------------------------------------------------
(* C7: addcondition on a ConditionBlock whose last clause is an            *)
(* else-clause fails with a SyntaxError whatever condition is added, and   *)
(* leaves the clauses of the block (conditions, order, statement lists)    *)
(* as they were; it fails in the call itself: nothing has been executed.   *)
C7_ClauseAfterElseFails ==
    [][ \A c \in BuildConditions :
            (AddCondition(c) /\ Last(groups).c.cond = "ElseCondition") =>
                /\ raised' = "SyntaxError"
                /\ groups' = groups
                /\ done' = <<>>
                /\ UNCHANGED <<makefile, heap, context, trace>>
      ]_vars

\* C7's case: the refused clause followed a clause with a statement and an
\* else-clause with a statement
C7_Witness ==
    /\ Len(groups) = 2
    /\ groups[1].c.cond # "ElseCondition" /\ groups[1].statements # <<>>
    /\ groups[2].c.cond = "ElseCondition" /\ groups[2].statements # <<>>
    /\ raised = "SyntaxError"

----------------------------------------------------------------------------
(* C8: StatementList.execute runs its statements in list order and stops   *)
(* at the first one that fails: what a block step leaves is what the first *)
(* n statements of the selected clause leave, executed one after the       *)
(* other, where none before the n-th failed and the n-th failed or was the *)
(* last; so no later statement of the list ran and what the earlier ones   *)
(* did is in place.  The failure leaves the enclosing clause and the       *)
(* enclosing lists too: of a block nested in a clause that fails, the      *)
(* statements after it in the clause do not run, and once a statement of   *)
(* the pass has failed no other statement of the pass is executed.         *)
RECURSIVE RunPrefix(_, _, _)
RunPrefix(list, n, e) ==
    IF n = 0 THEN e ELSE Statement_execute(list[n], RunPrefix(list, n - 1, e))

StopsAtFirstFailure(list, e, result) ==
    \E n \in 0..Len(list) :
        /\ result = RunPrefix(list, n, e)
        /\ \A m \in 0..(n - 1) : RunPrefix(list, m, e).raised = NoError
        /\ n = Len(list) \/ result.raised # NoError

\* the statements whose execute was called, in call order
Executions(tr) ==
    LET calls == SelectSeq(tr, LAMBDA ev : ev.ev = "execute")
    IN  [i \in 1..Len(calls) |-> calls[i].s]

C8_FailureEndsEveryList ==
    [][ /\ (Stepped /\ Last(done').kind = "ConditionBlock") =>
            LET s == Last(done')
                g == s.groups
                k == FirstTrue(g, makefile)
            IN  k # 0 =>
                    StopsAtFirstFailure(g[k].statements,
                        [Before EXCEPT !.trace =
                            <<Executed(s)>> \o [i \in 1..k |-> Evaluated(i - 1, i = k)]],
                        After)
        /\ (Stepped /\ Last(done') = BlockNested /\ context.currule # NoRule) =>
               /\ raised' = "DataError"
               /\ Executions(trace') =
                      <<BlockNested, Command2, BlockFail, RuleB, Command2, RuleMixed>>
        /\ raised # NoError => UNCHANGED vars
      ]_vars

\* C8's case: a rule, then the block whose clause holds a command, a block
\* that fails at its third statement, and a command: the command and the
\* rule and command of the inner block have acted, nothing after them
C8_Witness ==
    /\ done = <<RuleAB, BlockNested>>
    /\ raised = "DataError"
    /\ Executions(trace) =
           <<BlockNested, Command2, BlockFail, RuleB, Command2, RuleMixed>>
    /\ heap[1].commands = <<Command2.exp>>
    /\ RulesOf(makefile, Str("b.o")) = <<RuleEntry(1), RuleEntry(2)>>
    /\ heap[2].commands = <<Command2.exp>>
    /\ context.currule = RuleRef(2)

----------------------------------------------------------------------------
(* C9: the context's current rule is shared between a ConditionBlock and   *)
(* the list that holds it.  A block step leaves as current rule what the   *)
(* statements of its selected clause leave, so a Rule or StaticPatternRule *)
(* executed in the clause is the current rule of the Command statements    *)
(* that follow the block: a Command executed right after a block whose     *)
(* clause defined b.o is appended to that very rule object, the one in the *)
(* entry of b.o.  A Command in a clause that defines no rule is appended   *)
(* to the rule that was current before the block, and that rule is still   *)
(* current after the block.                                                *)
C9_CurrentRuleSharedWithBlock ==
    [][ Stepped =>
        LET s == Last(done')
            cur == context.currule
        IN  /\ (s = BlockRule \/ s = BlockStatic) =>
                /\ raised' = NoError
                /\ Len(heap') = Len(heap) + 1
                /\ context'.currule = RuleRef(Len(heap'))
                /\ Last(RulesOf(makefile', Str("b.o"))).rule = Len(heap')
            /\ (s.kind = "Command" /\ done # <<>>
                    /\ (Last(done) = BlockRule \/ Last(done) = BlockStatic)) =>
                /\ raised' = NoError
                /\ cur = RuleRef(Len(heap))
                /\ Last(RulesOf(makefile, Str("b.o"))).rule = cur.ref
                /\ heap' = [heap EXCEPT ![cur.ref].commands = Append(@, s.exp)]
            /\ ((s = BlockCommand \/ s = BlockElse) /\ cur.cls = "Rule") =>
                /\ raised' = NoError
                /\ context'.currule = cur
                /\ heap' = [heap EXCEPT ![cur.ref].commands = Append(@, Command2.exp)]
      ]_vars

\* C9's case: a block whose clause defines b.o, a block whose clause holds
\* the command c2, the command c1: both commands are on the rule of b.o
C9_Witness ==
    /\ done = <<BlockRule, BlockCommand, Command1>>
    /\ raised = NoError
    /\ RulesOf(makefile, Str("b.o")) = <<RuleEntry(1)>>
    /\ heap[1].commands = <<Command2.exp, Command1.exp>>
    /\ context.currule = RuleRef(1)

----------------------------------------------------------------------------
(* C10: when the resolved, wildcard-expanded target list of a Rule or a    *)
(* StaticPatternRule is empty, execute makes a DummyRule the context's     *)
(* current rule and returns without error, leaving the model (target       *)
(* table, implicit-rule sequence, goal) and every rule object as they      *)
(* were; a Command executed while the DummyRule is current is discarded:   *)
(* no rule object gets it, the rule that was current before included, and  *)
(* the DummyRule stays current.                                            *)
C10_EmptyTargetsSink ==
    [][ Stepped =>
        LET s == Last(done') IN
        /\ (s.kind \in {"Rule", "StaticPatternRule"}
                /\ Words(s.targetexp, makefile) = <<>>) =>
            /\ context'.currule = DummyRule
            /\ raised' = NoError
            /\ makefile' = makefile
            /\ heap' = heap
        /\ (s.kind = "Command" /\ context.currule = DummyRule) =>
            /\ raised' = NoError
            /\ heap' = heap
            /\ makefile' = makefile
            /\ context'.currule = DummyRule
            /\ trace' = <<Executed(s), Discarded(s.exp)>>
      ]_vars

\* C10's case: a.o b.o: a.c, then a rule whose wildcard matches nothing,
\* then a command: the rule of a.o and b.o has no command
C10_Witness ==
    /\ done = <<RuleAB, RuleNoMatch, Command1>>
    /\ raised = NoError
    /\ context.currule = DummyRule
    /\ Len(heap) = 1 /\ heap[1].commands = <<>>
    /\ RulesOf(makefile, Str("a.o")) = <<RuleEntry(1)>>

----------------------------------------------------------------------------
(* Scopes: what a SetVariable names and what its scopes hold               *)

\* the scope a target word names
Designator(word) ==
    IF Contains(word, "%") THEN PatternScope(word) ELSE TargetScope(word)

\* the scopes a SetVariable names in mk, in order
Named(s, mk) ==
    IF s.targetexp = None THEN <<GlobalScope>>
    ELSE LET words == splitwords(resolve(s.targetexp[1], mk.variables))
         IN  [i \in 1..Len(words) |-> Designator(words[i])]

ScopeExists(mk, d) ==
    CASE d.scope = "global" -> TRUE
      [] d.scope = "pattern" ->
            \E i \in 1..Len(mk.patternvariables) : mk.patternvariables[i].pattern = d.key
      [] d.scope = "target" -> d.key \in DOMAIN mk.targets

\* the bindings of a scope, none when the scope is not there yet
BindingsOf(mk, d) == IF ScopeExists(mk, d) THEN ScopeOf(mk, d) ELSE EmptyScope

\* every scope of mk2 that no designator of ds names is in mk1 and as in mk1
OtherScopesKept(mk1, mk2, ds) ==
    LET named(d) == \E i \in 1..Len(ds) : ds[i] = d IN
    /\ named(GlobalScope) \/ mk2.variables = mk1.variables
    /\ \A n \in DOMAIN mk2.targets :
           ~named(TargetScope(n)) => (n \in DOMAIN mk1.targets /\ mk2.targets[n] = mk1.targets[n])
    /\ \A i \in 1..Len(mk2.patternvariables) :
           ~named(PatternScope(mk2.patternvariables[i].pattern)) =>
               (i <= Len(mk1.patternvariables)
                   /\ mk2.patternvariables[i] = mk1.patternvariables[i])

\* this step executed a SetVariable of the top-level list whose name
\* resolves to a name
SetVariableStep ==
    /\ Stepped
    /\ Last(done').kind = "SetVariable"
    /\ resolve(Last(done').vnameexp, makefile.variables) # <<>>

----------------------------------------------------------------------------
(* C11: SetVariable with '?=' leaves a scope it names as it was when the   *)
(* scope already holds a binding of the name, a binding with the empty     *)
(* string as value included; a scope that holds none gets the raw value    *)
(* text under the recursive flavor with the source of the statement, which *)
(* is what '=' stores: when no named scope holds the name the statement    *)
(* leaves what the same statement with '=' leaves.                         *)
C11_DefaultKeepsBinding ==
    [][ (SetVariableStep /\ Last(done').token = "?=") =>
        LET s == Last(done')
            vname == resolve(s.vnameexp, makefile.variables)
            ds == Named(s, makefile)
            held(d) == vname \in DOMAIN BindingsOf(makefile, d)
            same == Statement_execute([s EXCEPT !.token = "="], Before)
        IN  /\ raised' = NoError
            /\ \A i \in 1..Len(ds) :
                   /\ ScopeExists(makefile', ds[i])
                   /\ held(ds[i]) =>
                          BindingsOf(makefile', ds[i]) = BindingsOf(makefile, ds[i])
                   /\ ~held(ds[i]) =>
                          /\ DOMAIN BindingsOf(makefile', ds[i]) =
                                 DOMAIN BindingsOf(makefile, ds[i]) \cup {vname}
                          /\ BindingsOf(makefile', ds[i])[vname] =
                                 [flavor |-> FLAVOR_RECURSIVE, source |-> s.source,
                                  value |-> s.value]
                          /\ \A n \in DOMAIN BindingsOf(makefile, ds[i]) :
                                 BindingsOf(makefile', ds[i])[n] =
                                     BindingsOf(makefile, ds[i])[n]
            /\ (\A i \in 1..Len(ds) : ~held(ds[i])) =>
                   /\ makefile' = same.makefile
                   /\ heap' = same.heap
                   /\ context' = same.context
                   /\ raised' = same.raised
      ]_vars

\* C11's case: X ?= 5 ran where X was bound to the empty string, and
\* X is still bound to it
C11_Witness ==
    /\ Len(done) >= 2
    /\ done[Len(done) - 1] = AssignXEmpty
    /\ Last(done) = AssignXDefault
    /\ raised = NoError
    /\ Bound(makefile, "X")
    /\ Binding(makefile, "X").value = <<>>

----------------------------------------------------------------------------
(* Static pattern rules: stems                                             *)

\* the pattern with its wildcard replaced by a stem
Subst(pattern, stem) ==
    LET p == Find(pattern, "%") IN
    SubSeq(pattern, 1, p - 1) \o stem \o SubSeq(pattern, p + 1, Len(pattern))

\* the stems with which the pattern gives the word
Stems(pattern, word) ==
    {stem \in {SubSeq(word, i, j) : i \in 1..(Len(word) + 1), j \in 0..Len(word)} :
        Subst(pattern, stem) = word}

\* a target a static pattern rule refuses
Refused(pattern, t) == Contains(t, "%") \/ Stems(pattern, t) = {}

\* the first refused target of the list, 0 when none is refused
FirstRefused(pattern, targets) ==
    IF \E i \in 1..Len(targets) : Refused(pattern, targets[i])
    THEN CHOOSE i \in 1..Len(targets) :
             /\ Refused(pattern, targets[i])
             /\ \A j \in 1..(i-1) : ~Refused(pattern, targets[j])
    ELSE 0

\* how many of the first n elements of seq are x
Occurrences(seq, n, x) == Cardinality({i \in 1..n : seq[i] = x})

\* the rule list of t after the first n targets of the list have been
\* attached to the pattern rule ref
Attached(mk, targets, n, pattern, ref, t) ==
    RulesOf(mk, t) \o
        [k \in 1..Occurrences(targets, n, t) |->
            data_PatternRuleInstance(ref, <<>>, CHOOSE stem \in Stems(pattern, t) : TRUE,
                                     pattern = <<"%">>)]

\* this step executed a StaticPatternRule of the top-level list that names
\* a target
StaticStep ==
    /\ Stepped
    /\ Last(done').kind = "StaticPatternRule"
    /\ Words(Last(done').targetexp, makefile) # <<>>

----------------------------------------------------------------------------
(* C12: StaticPatternRule.execute with a non-empty target list fails with  *)
(* a DataError unless the pattern expansion resolves to exactly one word,  *)
(* and fails with a DataError when a target is itself a pattern or does    *)
(* not match the pattern.  Otherwise it creates one pattern rule and       *)
(* appends to the entry of every target (created on demand) a rule         *)
(* instance that holds this one rule and the stem of that target (the      *)
(* text that, put in place of the wildcard, gives the target: "a" for a.o  *)
(* and %.o), touches no other entry and not the implicit-rule sequence,    *)
(* reports the first target as goal (recorded when there is none yet) and  *)
(* makes the pattern rule the current rule.                                *)
C12_StaticPatternRuleAttaches ==
    [][ StaticStep =>
        LET s == Last(done')
            targets == Words(s.targetexp, makefile)
            patterns == splitwords(resolve(s.patternexp, makefile.variables))
            pattern == patterns[1]
            ref == Len(heap) + 1
        IN  /\ Len(patterns) # 1 =>
                   (raised' = "DataError" /\ makefile' = makefile /\ context' = context)
            /\ (Len(patterns) = 1 /\ FirstRefused(pattern, targets) # 0) =>
                   raised' = "DataError"
            /\ (Len(patterns) = 1 /\ FirstRefused(pattern, targets) = 0) =>
                   /\ raised' = NoError
                   /\ heap' = Append(heap, data_PatternRule(<<pattern>>,
                                         Words(s.depexp, makefile), s.doublecolon))
                   /\ \A i \in 1..Len(targets) :
                          /\ targets[i] \in DOMAIN makefile'.targets
                          /\ Cardinality(Stems(pattern, targets[i])) = 1
                          /\ RulesOf(makefile', targets[i]) =
                                 Attached(makefile, targets, Len(targets), pattern, ref,
                                          targets[i])
                   /\ \A n \in DOMAIN makefile'.targets :
                          (\A i \in 1..Len(targets) : targets[i] # n) =>
                              /\ n \in DOMAIN makefile.targets
                              /\ makefile'.targets[n] = makefile.targets[n]
                   /\ makefile'.implicitrules = makefile.implicitrules
                   /\ makefile'.defaulttarget =
                          (IF makefile.defaulttarget = None THEN Some(targets[1])
                           ELSE makefile.defaulttarget)
                   /\ context'.currule = RuleRef(ref)
      ]_vars

\* C12's case: a.o b.o: %.o: %.c has run after b.o: b.c: a.o holds an
\* instance with the stem a, b.o the rule of b.o and an instance with the
\* stem b, both instances hold the one pattern rule, which is current, and
\* b.o is still the goal
C12_Witness ==
    /\ done = <<RuleB, StaticAB>>
    /\ raised = NoError
    /\ heap[2].type = "PatternRule" /\ heap[2].targetpatterns = <<Str("%.o")>>
    /\ RulesOf(makefile, Str("a.o")) =
           <<data_PatternRuleInstance(2, <<>>, Str("a"), FALSE)>>
    /\ RulesOf(makefile, Str("b.o")) =
           <<RuleEntry(1), data_PatternRuleInstance(2, <<>>, Str("b"), FALSE)>>
    /\ makefile.defaulttarget = Some(Str("b.o"))
    /\ context.currule = RuleRef(2)

----------------------------------------------------------------------------
(* C13: parsecommandlineargs gives, for every argument that holds '=' and  *)
(* in the order of the arguments, an Override with the raw argument and    *)
(* right after it a SetVariable from the command line: its operator is     *)
(* ':=' when the argument holds ':=' and '=' otherwise, the argument is    *)
(* cut at the first occurrence of that operator, the name is the text      *)
(* before the cut without the blanks around it and the value is the text   *)
(* after it.  The arguments without '=' are the residual list, unchanged   *)
(* and in their order, and give no statement.                              *)

\* the first position at which sep occurs in a, 0 when it does not occur
Cut(a, sep) ==
    LET at == {i \in 1..Len(a) :
                  i + Len(sep) - 1 <= Len(a)
                      /\ \A j \in 1..Len(sep) : a[i + j - 1] = sep[j]}
    IN  IF at = {} THEN 0 ELSE CHOOSE i \in at : \A j \in at : i <= j

\* the text without the blanks at its ends
Trimmed(a) ==
    LET inside == {i \in 1..Len(a) : a[i] \notin {" ", "\t"}}
        lo == CHOOSE i \in inside : \A j \in inside : i <= j
        hi == CHOOSE i \in inside : \A j \in inside : j <= i
    IN  IF inside = {} THEN <<>> ELSE SubSeq(a, lo, hi)

\* the positions of argv that hold '=', in order
Assigning == SelectSeq([i \in 1..Len(argv) |-> i], LAMBDA i : Contains(argv[i], "="))

C13_CommandLineArgs ==
    parsed # None =>
        LET res == parsed[1] IN
        /\ res.r = SelectSeq(argv, LAMBDA a : ~Contains(a, "="))
        /\ Len(res.stmts) = 2 * Len(Assigning)
        /\ \A k \in 1..Len(Assigning) :
               LET a == argv[Assigning[k]]
                   op == IF Cut(a, <<":", "=">>) # 0 THEN <<":", "=">> ELSE <<"=">>
                   at == Cut(a, op)
                   name == Trimmed(SubSeq(a, 1, at - 1))
                   set == res.stmts[2 * k]
               IN  /\ res.stmts[2 * k - 1] = Override(a)
                   /\ set.kind = "SetVariable"
                   /\ set.source = SOURCE_COMMANDLINE
                   /\ set.targetexp = None
                   /\ set.token = (IF op = <<"=">> THEN "=" ELSE ":=")
                   /\ resolve(set.vnameexp, EmptyScope) = name
                   /\ set.value = SubSeq(a, at + Len(op), Len(a))
                   /\ set.valueloc =
                          Location("<command-line>", Assigning[k] - 1, Len(name) + Len(op))

\* C13's case: CC=gcc all has been parsed and its statements executed
C13_Witness ==
    /\ argv = <<Str("CC=gcc"), Str("all")>>
    /\ parsed = Some([stmts |-> <<Override(Str("CC=gcc")),
                                  SetVariable(Text("CC"), "=", Str("gcc"),
                                              Location("<command-line>", 0, 3), None,
                                              SOURCE_COMMANDLINE)>>,
                      r |-> <<Str("all")>>])
    /\ makefile.overrides = <<Str("CC=gcc")>>
    /\ Binding(makefile, "CC") =
           [flavor |-> FLAVOR_RECURSIVE, source |-> SOURCE_COMMANDLINE,
            value |-> Str("gcc")]

----------------------------------------------------------------------------
(* C14: SetVariable with a target expansion and '=' or ':=' hands every    *)
(* scope a word of the resolved target expansion names (the scope of the   *)
(* pattern for a pattern word, the scope of the target for any other word, *)
(* created when it is not there) the same set(name, flavor, source,        *)
(* value): the raw text and the recursive flavor for '=', the text         *)
(* resolved against the global scope and the simple flavor for ':='.       *)
(* Every scope that holds no binding of the name from a stronger source    *)
(* holds that binding afterwards.  The global scope, every scope that is   *)
(* not named, the rule lists of the targets, the rule objects and the      *)
(* context are left as they were; with no word at all the statement        *)
(* succeeds and the model is as before.                                    *)
C14_ScopedAssignment ==
    [][ (SetVariableStep /\ Last(done').targetexp # None
            /\ Last(done').token \in {"=", ":="}) =>
        LET s == Last(done')
            vname == resolve(s.vnameexp, makefile.variables)
            ds == Named(s, makefile)
            flavor == IF s.token = "=" THEN FLAVOR_RECURSIVE ELSE FLAVOR_SIMPLE
            value == IF s.token = "=" THEN s.value
                     ELSE resolve(parsemakesyntax(s.value), makefile.variables)
            stronger(d) ==
                /\ vname \in DOMAIN BindingsOf(makefile, d)
                /\ SourceRank(BindingsOf(makefile, d)[vname].source) < SourceRank(s.source)
        IN  /\ raised' = NoError
            /\ heap' = heap
            /\ context' = context
            /\ \A i \in 1..Len(ds) :
                   /\ ScopeExists(makefile', ds[i])
                   /\ BindingsOf(makefile', ds[i]) =
                          Variables_set(BindingsOf(makefile, ds[i]), vname, flavor,
                                        s.source, value)
                   /\ ~stronger(ds[i]) =>
                          BindingsOf(makefile', ds[i])[vname] =
                              [flavor |-> flavor, source |-> s.source, value |-> value]
            /\ makefile'.variables = makefile.variables
            /\ OtherScopesKept(makefile, makefile', ds)
            /\ \A n \in DOMAIN makefile'.targets :
                   makefile'.targets[n].rules = RulesOf(makefile, n)
            /\ [makefile' EXCEPT !.targets = makefile.targets,
                                 !.patternvariables = makefile.patternvariables] = makefile
            /\ ds = <<>> => makefile' = makefile
      ]_vars

\* C14's case: X = 1, then %.o a.o: V := $(X): the scope of the pattern
\* and the scope of a.o, both new, hold V as the simple value 1, and the
\* global scope holds X only
C14_Witness ==
    /\ done = <<AssignX1, ScopedSimple>>
    /\ raised = NoError
    /\ DOMAIN makefile.variables = {Str("X")}
    /\ Len(makefile.patternvariables) = 1
    /\ makefile.patternvariables[1].pattern = Str("%.o")
    /\ makefile.patternvariables[1].variables[Str("V")] =
           [flavor |-> FLAVOR_SIMPLE, source |-> SOURCE_MAKEFILE, value |-> Str("1")]
    /\ DOMAIN makefile.targets = {Str("a.o")}
    /\ makefile.targets[Str("a.o")].variables[Str("V")] =
           [flavor |-> FLAVOR_SIMPLE, source |-> SOURCE_MAKEFILE, value |-> Str("1")]

----------------------------------------------------------------------------
(* Directives: the directories of a search-path word                       *)

\* the maximal runs of characters other than ':' of a word, in order
Runs(w) ==
    LET starts == {i \in 1..Len(w) : w[i] # ":" /\ (i = 1 \/ w[i - 1] = ":")}
        nth(k) == CHOOSE i \in starts : Cardinality({j \in starts : j < i}) = k - 1
        endof(i) == CHOOSE j \in i..Len(w) :
                        /\ \A m \in i..j : w[m] # ":"
                        /\ j = Len(w) \/ w[j + 1] = ":"
    IN  [k \in 1..Cardinality(starts) |-> SubSeq(w, nth(k), endof(nth(k)))]

RECURSIVE RunsOfAll(_)
RunsOfAll(ws) == IF ws = <<>> THEN <<>> ELSE Runs(Head(ws)) \o RunsOfAll(Tail(ws))

\* the makefile but for its search-path table and its exported set
Rest(mk) == [mk EXCEPT !.vpath = <<>>, !.exportedvars = {}]

----------------------------------------------------------------------------
(* C15: VPathDirective.execute, on the words its expansion resolves to:    *)
(* with no word every search-path rule is cleared; with one word the rules *)
(* of that pattern are cleared and the others kept, in their order; with   *)
(* more words the directories are the segments between the ':' of the      *)
(* words after the first, in order, without the empty ones, and they are   *)
(* registered as one more rule of the first word's pattern; when no        *)
(* directory is left the table stays as it is.  The directive never fails  *)
(* and touches nothing but the table.                                      *)
C15_VPathDirective ==
    [][ (Stepped /\ Last(done').kind = "VPathDirective") =>
        LET s == Last(done')
            words == splitwords(resolve(s.exp, makefile.variables))
            dirs == RunsOfAll(Tail(words))
        IN  /\ raised' = NoError
            /\ Rest(makefile') = Rest(makefile)
            /\ makefile'.exportedvars = makefile.exportedvars
            /\ heap' = heap /\ context' = context
            /\ Len(words) = 0 => makefile'.vpath = <<>>
            /\ Len(words) = 1 =>
                   makefile'.vpath =
                       SelectSeq(makefile.vpath, LAMBDA r : r.pattern # words[1])
            /\ (Len(words) >= 2 /\ dirs # <<>>) =>
                   makefile'.vpath =
                       Append(makefile.vpath, [pattern |-> words[1], dirs |-> dirs])
            /\ (Len(words) >= 2 /\ dirs = <<>>) => makefile'.vpath = makefile.vpath
      ]_vars

\* C15's case: vpath %.c a: :b, then vpath %.h inc, then vpath %.c : ::,
\* whose words hold no directory: the rules are as the first two left them
C15_Witness ==
    /\ done = <<VPathMany, VPathH, VPathNoDirs>>
    /\ raised = NoError
    /\ makefile.vpath =
           <<[pattern |-> Str("%.c"), dirs |-> <<Str("a"), Str("b")>>],
             [pattern |-> Str("%.h"), dirs |-> <<Str("inc")>>]>>

----------------------------------------------------------------------------
(* C16: ExportDirective.execute that exports a list of names fails with a  *)
(* DataError when its expansion resolves to no word, and then leaves the   *)
(* exported set as it was; with words it adds every word to the set.  The  *)
(* directive that exports one name adds the resolved text as it is, blanks *)
(* and the empty text included, and that name only, and never fails.  No   *)
(* step takes a name out of the exported set, and an ExportDirective       *)
(* touches nothing but the set.                                            *)
C16_ExportDirective ==
    [][ /\ (Stepped /\ Last(done').kind = "ExportDirective") =>
            LET s == Last(done')
                r == resolve(s.exp, makefile.variables)
                words == splitwords(r)
            IN  /\ Rest(makefile') = Rest(makefile)
                /\ makefile'.vpath = makefile.vpath
                /\ heap' = heap /\ context' = context
                /\ (~s.single /\ words = <<>>) =>
                       /\ raised' = "DataError"
                       /\ makefile'.exportedvars = makefile.exportedvars
                /\ (~s.single /\ words # <<>>) =>
                       /\ raised' = NoError
                       /\ makefile'.exportedvars =
                              makefile.exportedvars \cup {words[i] : i \in 1..Len(words)}
                /\ s.single =>
                       /\ raised' = NoError
                       /\ makefile'.exportedvars = makefile.exportedvars \cup {r}
        /\ makefile.exportedvars \subseteq makefile'.exportedvars
      ]_vars

\* C16's case: the one name "A B" was exported, then an export of no name
\* failed: the set holds the one name
C16_Witness ==
    /\ done = <<ExportSingleAB, ExportNone>>
    /\ raised = "DataError"
    /\ makefile.exportedvars = {Str("A B")}

----------------------------------------------------------------------------
(* C17: Location.__add__, from every column c and for every text s: the    *)
(* path and the line are those of the start; without a tab in s the column *)
(* is c + len(s); for s a single tab the column is the smallest multiple   *)
(* of 4 strictly greater than c (4 from 0, 4 from 3, 8 from 4); the column *)
(* is never below c, and it is c only when s is empty.                     *)
C17_LocationAdvance ==
    [][ \A s \in Texts : Advance(s) =>
            LET c == loc.column
                n == loc'.column
            IN  /\ loc'.path = loc.path
                /\ loc'.line = loc.line
                /\ ~Contains(s, "\t") => n = c + Len(s)
                /\ s = <<"\t">> =>
                       /\ n % 4 = 0
                       /\ n > c
                       /\ \A m \in (c + 1)..(n - 1) : m % 4 # 0
                       /\ c = 0 => n = 4
                       /\ c = 3 => n = 4
                       /\ c = 4 => n = 8
                /\ n >= c
                /\ (n = c) <=> (s = <<>>)
      ]_vars

\* C17's case: four characters and a tab have been consumed: the tab took
\* the column from 4 to 8
C17_Witness ==
    /\ data = Str("xxxx\t")
    /\ loc = Location("Makefile", 1, 8)

----------------------------------------------------------------------------
(* The current rule: which statements hold a rule statement                *)

RECURSIVE HasRule(_)
\* the statement is a Rule or a StaticPatternRule, or a block that holds
\* one in a clause, at any depth
HasRule(s) ==
    \/ s.kind \in {"Rule", "StaticPatternRule"}
    \/ /\ s.kind = "ConditionBlock"
       /\ \E i \in 1..Len(s.groups) :
              \E j \in 1..Len(s.groups[i].statements) :
                  HasRule(s.groups[i].statements[j])

\* executed in mk, the statement may execute a rule statement: it is one,
\* or a block whose selected clause holds one
MayDefineRule(s, mk) ==
    \/ s.kind \in {"Rule", "StaticPatternRule"}
    \/ /\ s.kind = "ConditionBlock"
       /\ FirstTrue(s.groups, mk) # 0
       /\ LET list == s.groups[FirstTrue(s.groups, mk)].statements IN
          \E j \in 1..Len(list) : HasRule(list[j])

\* the command lines of the Command statements executed, in call order
CommandsRun(tr) ==
    LET cs == SelectSeq(Executions(tr), LAMBDA x : x.kind = "Command")
    IN  [i \in 1..Len(cs) |-> cs[i].exp]

----------------------------------------------------------------------------
(* C18: a statement that is no Rule and no StaticPatternRule, and no block *)
(* whose selected clause holds one, leaves the context's current rule as   *)
(* it was, whether it succeeds or fails: an Override, a SetVariable, an    *)
(* Include, a VPathDirective, an ExportDirective, an EmptyDirective, a     *)
(* Command, a block of them.  While a rule object is current such a        *)
(* statement creates no rule object, changes no rule object but the        *)
(* current one, to which it appends the command lines of the Commands it   *)
(* executed, in order, and leaves the rule list of every target as it was; *)
(* so the commands reach every target the rule was attached to.  A Rule or *)
(* StaticPatternRule that names targets and succeeds makes the rule object *)
(* it created the current one.                                             *)
C18_OnlyRulesChangeCurrentRule ==
    [][ Stepped =>
        LET s == Last(done')
            cur == context.currule
        IN  /\ ~MayDefineRule(s, makefile) =>
                /\ context'.currule = cur
                /\ cur.cls = "Rule" =>
                       /\ heap' = [heap EXCEPT ![cur.ref].commands =
                                                   @ \o CommandsRun(trace')]
                       /\ \A n \in DOMAIN makefile.targets :
                              /\ n \in DOMAIN makefile'.targets
                              /\ makefile'.targets[n].rules = makefile.targets[n].rules
                       /\ \A n \in DOMAIN makefile'.targets :
                              n \notin DOMAIN makefile.targets =>
                                  makefile'.targets[n].rules = <<>>
                       /\ makefile'.implicitrules = makefile.implicitrules
            /\ (s.kind = "Command" /\ cur.cls = "Rule") =>
                /\ raised' = NoError
                /\ CommandsRun(trace') = <<s.exp>>
                /\ makefile' = makefile
            /\ (s.kind \in {"Rule", "StaticPatternRule"} /\ raised' = NoError
                    /\ Words(s.targetexp, makefile) # <<>>) =>
                /\ Len(heap') = Len(heap) + 1
                /\ context'.currule = RuleRef(Len(heap'))
      ]_vars

\* C18's case: a.o b.o: a.c, then a block whose clause holds a statement
\* of every other kind and the command c2, then the command c1: both
\* commands are on the one rule of a.o and b.o, which is still current
C18_Witness ==
    /\ done = <<RuleAB, BlockMany, Command1>>
    /\ raised = NoError
    /\ Len(heap) = 1
    /\ heap[1].commands = <<Command2.exp, Command1.exp>>
    /\ RulesOf(makefile, Str("a.o")) = <<RuleEntry(1)>>
    /\ RulesOf(makefile, Str("b.o")) = <<RuleEntry(1)>>
    /\ context.currule = RuleRef(1)
    /\ makefile.overrides # <<>> /\ makefile.exportedvars # {}
    /\ makefile.vpath # <<>> /\ makefile.included # <<>>

----------------------------------------------------------------------------
(* C19: when StaticPatternRule.execute is given one pattern and the k-th   *)
(* target of its list is the first that is a pattern or does not match, it *)
(* fails with a DataError; the targets before position k have their rule   *)
(* instance, in an entry created for it where there was none; no other     *)
(* entry is created and no other rule list changes, the k-th and the later *)
(* targets included; the goal of the model, the implicit-rule sequence and *)
(* the context's current rule are as before the statement.                 *)
C19_StaticPatternRuleFailsAtTarget ==
    [][ StaticStep =>
        LET s == Last(done')
            targets == Words(s.targetexp, makefile)
            patterns == splitwords(resolve(s.patternexp, makefile.variables))
            pattern == patterns[1]
            k == FirstRefused(pattern, targets)
            before == {targets[i] : i \in 1..(k - 1)}
        IN  (Len(patterns) = 1 /\ k # 0) =>
                /\ raised' = "DataError"
                /\ DOMAIN makefile'.targets = DOMAIN makefile.targets \cup before
                /\ \A t \in before :
                       RulesOf(makefile', t) =
                           Attached(makefile, targets, k - 1, pattern, Len(heap) + 1, t)
                /\ \A n \in DOMAIN makefile'.targets \ before :
                       makefile'.targets[n] = makefile.targets[n]
                /\ \A i \in k..Len(targets) :
                       targets[i] \notin before =>
                           RulesOf(makefile', targets[i]) = RulesOf(makefile, targets[i])
                /\ makefile'.defaulttarget = makefile.defaulttarget
                /\ makefile'.implicitrules = makefile.implicitrules
                /\ context'.currule = context.currule
      ]_vars

\* C19's case: %.o: %.c, then b.o a.x a.o:: %.o: %.c, which fails at its
\* second target: b.o holds its instance, a.x and a.o have no entry, the
\* model has no goal and the rule of %.o is still current
C19_Witness ==
    /\ done = <<RulePattern, StaticMiddle>>
    /\ raised = "DataError"
    /\ DOMAIN makefile.targets = {Str("b.o")}
    /\ RulesOf(makefile, Str("b.o")) =
           <<data_PatternRuleInstance(2, <<>>, Str("b"), FALSE)>>
    /\ makefile.defaulttarget = None
    /\ makefile.implicitrules = <<1>>
    /\ context.currule = RuleRef(1)

----------------------------------------------------------------------------
(* The pass so far: what has been executed since the fresh context         *)

\* the execution record of a pass that starts: a new model, a fresh context
Fresh ==
    [makefile |-> NewMakefile, heap |-> <<>>, context |-> NewContext,
     raised |-> NoError, trace |-> <<>>]

\* every statement executed so far in the pass, the statements of the
\* clauses included, in call order
ExecutedSoFar == Executions(RunPrefix(done, Len(done), Fresh).trace)

\* no Rule and no StaticPatternRule has been executed in the pass
NoRuleYet ==
    \A i \in 1..Len(ExecutedSoFar) :
        ExecutedSoFar[i].kind \notin {"Rule", "StaticPatternRule"}

----------------------------------------------------------------------------
(* C20: in a pass that started with a fresh context, as long as no Rule    *)
(* and no StaticPatternRule has been executed, at the top level or in a    *)
(* clause, the context holds no current rule, and a Command executed then  *)
(* fails with an AssertionError: no rule object gets the command, none is  *)
(* created, nothing is discarded and the model, its target table and       *)
(* implicit-rule sequence included, is as before.  The same holds for a    *)
(* Command that is the first statement of the clause a block selects: it   *)
(* fails, and the block ends with it.  The failure ends the pass: no       *)
(* statement is executed after it.                                         *)
C20_CommandWithoutRuleFails ==
    [][ /\ raised = "AssertionError" => UNCHANGED vars
        /\ (Stepped /\ NoRuleYet) =>
            LET s == Last(done') IN
            /\ context.currule = NoRule
            /\ heap = <<>>
            /\ s.kind = "Command" =>
                   /\ raised' = "AssertionError"
                   /\ heap' = heap
                   /\ makefile' = makefile
                   /\ context' = context
                   /\ trace' = <<Executed(s)>>
            /\ s \in {BlockCommand, BlockNested} =>
                   /\ raised' = "AssertionError"
                   /\ heap' = heap
                   /\ makefile' = makefile
                   /\ context' = context
                   /\ Executions(trace') = <<s, Command2>>
      ]_vars

\* C20's case: a block whose one clause, with a rule in it, was not
\* selected, then the command c1, which failed
C20_Witness ==
    /\ done = <<BlockSkip, Command1>>
    /\ raised = "AssertionError"
    /\ heap = <<>>
    /\ makefile = NewMakefile
    /\ context = NewContext

====
